---- MODULE Spec2Model ----
(***************************************************************************)
(* Model of mcp_workflows: the executor registry (factories.py) and the    *)
(* workflow orchestrator (orchestrator.py) that runs the steps of a        *)
(* WorkflowSpec (spec.py) against it and logs one entry per step in a      *)
(* memory file.                                                            *)
(*                                                                         *)
(* Text is modelled as a sequence of tokens; the token NL is the newline   *)
(* character and no other token contains one, so that lines can be         *)
(* counted.  Python's None is the record None, a present value v is        *)
(* Some(v).  Objects created at run time carry a serial number (oid), so   *)
(* that object identity can be told from equality of class.                *)
(***************************************************************************)
EXTENDS Integers, Sequences, FiniteSets, TLC

\* ------------------------------------------------------------------ bounds
MaxSteps == 3
MaxOps == 3

\* ------------------------------------------------------------------ values
None == [some |-> FALSE]
Some(v) == [some |-> TRUE, v |-> v]

NL == "\n"

\* Python truthiness of an optional text (None and "" are falsy).
Truthy(opt) == opt.some /\ opt.v # <<>>

\* Number of lines of a text, as a text editor or str.splitlines counts them.
RECURSIVE CountNL(_)
CountNL(text) ==
    IF text = <<>> THEN 0
    ELSE (IF Head(text) = NL THEN 1 ELSE 0) + CountNL(Tail(text))

LineCount(text) ==
    CountNL(text) + (IF text # <<>> /\ text[Len(text)] # NL THEN 1 ELSE 0)

IsPrefix(s, t) == Len(s) <= Len(t) /\ SubSeq(t, 1, Len(s)) = s

\* ------------------------------------------------------------------ spec.py
StepKind == {"llm", "shell", "python"}

Branch(when, goto) == [when |-> when, goto |-> goto]

StepSpec(id, name, kind, input_template, branches, next_step) ==
    [id |-> id, name |-> name, kind |-> kind, input_template |-> input_template,
     branches |-> branches, next_step |-> next_step]

StepRequest(step, memory_text) ==
    [step_id |-> step.id,
     name |-> step.name,
     kind |-> step.kind,
     correlation_id |-> "step-" \o ToString(step.id),
     input |-> IF Truthy(step.input_template) THEN step.input_template.v ELSE <<>>,
     memory_text |-> memory_text]

StepResponse(status, result, next_step, error) ==
    [status |-> status, result |-> result, next_step |-> next_step, error |-> error]

\* A result payload: whether it is a dict, its "message" entry (None when the
\* payload is no dict or has no such entry) and its str() rendering.
Result(isdict, message, str) == [isdict |-> isdict, message |-> message, str |-> str]

NoResult == Result(FALSE, None, <<"None">>)

\* WorkflowSpec.__post_init__: step ids are pairwise distinct.
UniqueStepIds(steps) ==
    \A i, j \in 1..Len(steps) : steps[i].id = steps[j].id => i = j

\* TaskSpec(id, file, text); __post_init__ raises when neither source is given
\* (None and "" both count as not given).
TaskSpec(id, file, text) ==
    IF ~Truthy(file) /\ ~Truthy(text)
    THEN [raised |-> Some([type |-> "ValueError",
                           msg |-> <<"TaskSpec requires a file or text source.">>]),
          value |-> None]
    ELSE [raised |-> None, value |-> Some([id |-> id, file |-> file, text |-> text])]

UniqueTaskIds(tasks) ==
    \A i, j \in 1..Len(tasks) : tasks[i].id = tasks[j].id => i = j

\* WorkflowSpec without the checks of __post_init__.
WorkflowSpec_NoCheck(goal, memory_file, tasks, steps) ==
    [raised |-> None,
     value |-> Some([goal |-> goal, memory_file |-> memory_file, tasks |-> tasks,
                     steps |-> steps])]

\* WorkflowSpec(goal, memory_file, tasks, steps) with its __post_init__.
WorkflowSpec(goal, memory_file, tasks, steps) ==
    IF ~UniqueTaskIds(tasks)
    THEN [raised |-> Some([type |-> "ValueError",
                           msg |-> <<"WorkflowSpec tasks must have unique identifiers.">>]),
          value |-> None]
    ELSE IF ~UniqueStepIds(steps)
    THEN [raised |-> Some([type |-> "ValueError",
                           msg |-> <<"WorkflowSpec steps must have unique identifiers.">>]),
          value |-> None]
    ELSE [raised |-> None,
          value |-> Some([goal |-> goal, memory_file |-> memory_file, tasks |-> tasks,
                          steps |-> steps])]

\* ------------------------------------------------------------------ builder.py
\* WorkflowBuilder.__init__; _tasks, a dict, is the sequence of its values in
\* insertion order.
WorkflowBuilder == [goal |-> None, memory_file |-> None, tasks |-> <<>>, steps |-> <<>>]

\* WorkflowBuilder.with_goal
WithGoal(b, goal) == [b EXCEPT !.goal = Some(goal)]

\* WorkflowBuilder.memory
Memory(b, path) == [b EXCEPT !.memory_file = Some(path)]

TaskIdsOf(tasks) == {tasks[i].id : i \in 1..Len(tasks)}

\* register_task that replaces the task registered under the id.
RegisterTask_Overwrite(b, task_id, file, text) ==
    LET task == TaskSpec(task_id, IF Truthy(file) THEN file ELSE None, text)
        others == SelectSeq(b.tasks, LAMBDA t : t.id # task_id)
    IN  IF task.raised.some THEN [raised |-> task.raised, b |-> b]
        ELSE [raised |-> None, b |-> [b EXCEPT !.tasks = Append(others, task.value.v)]]

\* register_task that stores the id before the TaskSpec is made.
RegisterTask_ReserveId(b, task_id, file, text) ==
    IF task_id \in TaskIdsOf(b.tasks)
    THEN [raised |-> Some([type |-> "ValueError",
                           msg |-> <<"Task '", task_id, "' is already registered.">>]),
          b |-> b]
    ELSE LET task == TaskSpec(task_id, IF Truthy(file) THEN file ELSE None, text)
             stored == [id |-> task_id, file |-> None, text |-> None]
         IN  [raised |-> task.raised,
              b |-> [b EXCEPT !.tasks =
                        Append(@, IF task.raised.some THEN stored ELSE task.value.v)]]

\* WorkflowBuilder.register_task
RegisterTask(b, task_id, file, text) ==
    IF task_id \in TaskIdsOf(b.tasks)
    THEN [raised |-> Some([type |-> "ValueError",
                           msg |-> <<"Task '", task_id, "' is already registered.">>]),
          b |-> b]
    ELSE LET task == TaskSpec(task_id, IF Truthy(file) THEN file ELSE None, text)
         IN  IF task.raised.some THEN [raised |-> task.raised, b |-> b]
             ELSE [raised |-> None, b |-> [b EXCEPT !.tasks = Append(@, task.value.v)]]

\* The StepSpec add_step makes: no input template, branches or next_step, and the uses given.
BuiltStep(id, name, kind, uses) ==
    StepSpec(id, name, kind, None, <<>>, None) @@ [uses |-> uses]

\* add_step without the check of uses.
AddStep_NoCheck(b, name, kind, uses) ==
    [raised |-> None,
     b |-> [b EXCEPT !.steps = Append(@, BuiltStep(Len(b.steps) + 1, name, kind, uses))]]

\* add_step that numbers the steps from 0.
AddStep_FromZero(b, name, kind, uses) ==
    IF \E i \in 1..Len(uses) : uses[i] \notin TaskIdsOf(b.tasks)
    THEN [raised |-> Some([type |-> "ValueError", msg |-> <<"unknown task">>]), b |-> b]
    ELSE [raised |-> None,
          b |-> [b EXCEPT !.steps = Append(@, BuiltStep(Len(b.steps), name, kind, uses))]]

\* add_step that gives every step the id 1.
AddStep_FirstId(b, name, kind, uses) ==
    IF \E i \in 1..Len(uses) : uses[i] \notin TaskIdsOf(b.tasks)
    THEN [raised |-> Some([type |-> "ValueError", msg |-> <<"unknown task">>]), b |-> b]
    ELSE [raised |-> None,
          b |-> [b EXCEPT !.steps = Append(@, BuiltStep(1, name, kind, uses))]]

\* WorkflowBuilder.add_step: the first unknown id of uses is reported.
AddStep(b, name, kind, uses) ==
    LET step_id == Len(b.steps) + 1
        unknown == {i \in 1..Len(uses) : uses[i] \notin TaskIdsOf(b.tasks)}
    IN  IF unknown # {}
        THEN LET first == CHOOSE i \in unknown : \A j \in unknown : i <= j
             IN  [raised |-> Some([type |-> "ValueError",
                                   msg |-> <<"Step '">> \o name
                                               \o <<"' references unknown task '", uses[first],
                                                    "'.">>]),
                  b |-> b]
        ELSE [raised |-> None,
              b |-> [b EXCEPT !.steps = Append(@, BuiltStep(step_id, name, kind, uses))]]

\* compile that takes any goal and memory path that was set, empty or not.
Compile_AnySet(b) ==
    IF ~b.goal.some
    THEN [raised |-> Some([type |-> "ValueError",
                           msg |-> <<"Workflow goal must be provided before compilation.">>]),
          value |-> None]
    ELSE IF ~b.memory_file.some
    THEN [raised |-> Some([type |-> "ValueError",
                           msg |-> <<"Memory file must be configured before compilation.">>]),
          value |-> None]
    ELSE WorkflowSpec(b.goal.v, b.memory_file.v, b.tasks, b.steps)

\* WorkflowBuilder.compile
Compile(b) ==
    IF ~Truthy(b.goal)
    THEN [raised |-> Some([type |-> "ValueError",
                           msg |-> <<"Workflow goal must be provided before compilation.">>]),
          value |-> None]
    ELSE IF ~Truthy(b.memory_file)
    THEN [raised |-> Some([type |-> "ValueError",
                           msg |-> <<"Memory file must be configured before compilation.">>]),
          value |-> None]
    ELSE WorkflowSpec(b.goal.v, b.memory_file.v, b.tasks, b.steps)

\* ------------------------------------------------------------------ serialization
\* The values as_dict makes and _dump_yaml takes, each with the tag of its
\* Python type: a str (a text), an int, a bool, None, a list of values, and a
\* dict as the sequence of its <<key, value>> items in insertion order.
Str(text) == [t |-> "str", v |-> text]

Number(n) == [t |-> "int", v |-> n]

Bool(b) == [t |-> "bool", v |-> b]

Null == [t |-> "null", v |-> 0]

List(items) == [t |-> "list", v |-> items]

Dict(items) == [t |-> "dict", v |-> items]

\* key in payload
HasKey(payload, key) == \E i \in 1..Len(payload.v) : payload.v[i][1] = key

\* payload[key]
Item(payload, key) == payload.v[CHOOSE i \in 1..Len(payload.v) : payload.v[i][1] = key][2]

\* Branch.as_dict
BranchAsDict(branch) ==
    Dict(<< <<"when", Str(branch.when)>>, <<"goto", Number(branch.goto)>> >>)

\* as_dict of TaskSpec that writes every field, None included.
TaskAsDict_AllFields(task) ==
    Dict(<< <<"id", Str(<<task.id>>)>>,
            <<"file", IF task.file.some THEN Str(task.file.v) ELSE Null>>,
            <<"text", IF task.text.some THEN Str(task.text.v) ELSE Null>> >>)

\* TaskSpec.as_dict
TaskAsDict(task) ==
    Dict(<< <<"id", Str(<<task.id>>)>> >>
         \o (IF task.file.some THEN << <<"file", Str(task.file.v)>> >> ELSE <<>>)
         \o (IF task.text.some THEN << <<"text", Str(task.text.v)>> >> ELSE <<>>))

\* The defaults of the fields of StepSpec that a step record may leave out:
\* doc = "", uses = (), config = {} (a dict, as the sequence of its items).
StepDefaults == [doc |-> <<>>, uses |-> <<>>, config |-> <<>>]

\* StepSpec.as_dict
StepAsDict(step) ==
    LET s == step @@ StepDefaults
    IN  Dict(<< <<"id", Number(s.id)>>,
                <<"name", Str(s.name)>>,
                <<"kind", Str(<<s.kind>>)>>,
                <<"doc", Str(s.doc)>> >>
             \o (IF Len(s.uses) > 0
                 THEN << <<"uses", List([i \in 1..Len(s.uses) |-> Str(<<s.uses[i]>>)])>> >>
                 ELSE <<>>)
             \o (IF s.input_template.some
                 THEN << <<"input", Str(s.input_template.v)>> >>
                 ELSE <<>>)
             \o (IF Len(s.config) > 0 THEN << <<"config", Dict(s.config)>> >> ELSE <<>>)
             \o (IF Len(s.branches) > 0
                 THEN << <<"branches",
                           List([i \in 1..Len(s.branches) |-> BranchAsDict(s.branches[i])])>> >>
                 ELSE <<>>)
             \o (IF s.next_step.some THEN << <<"next", Number(s.next_step.v)>> >> ELSE <<>>))

\* WorkflowSpec.as_dict
WorkflowAsDict(w) ==
    Dict(<< <<"goal", Str(w.goal)>>,
            <<"memory_file", Str(w.memory_file)>>,
            <<"tasks", List([i \in 1..Len(w.tasks) |-> TaskAsDict(w.tasks[i])])>>,
            <<"steps", List([i \in 1..Len(w.steps) |-> StepAsDict(w.steps[i])])>> >>)

\* _is_scalar
IsScalar(value) == value.t \notin {"dict", "list"}

\* json.dumps of a str: the text between double quotes, a double quote and a
\* newline in it escaped.
JsonDumps(text) ==
    <<"\"">> \o [i \in 1..Len(text) |->
                   IF text[i] = "\"" THEN "\\\""
                   ELSE IF text[i] = NL THEN "\\n"
                   ELSE text[i]]
            \o <<"\"">>

\* _format_scalar
FormatScalar(value) ==
    IF value.t = "bool" THEN (IF value.v THEN <<"true">> ELSE <<"false">>)
    ELSE IF value.t = "null" THEN <<"null">>
    ELSE IF value.t = "int" THEN <<ToString(value.v)>>
    ELSE JsonDumps(value.v)

\* " " * indent
Spaces(indent) == [i \in 1..indent |-> " "]

\* "\n".join(lines)
RECURSIVE JoinLines(_)
JoinLines(lines) ==
    IF Len(lines) = 0 THEN <<>>
    ELSE IF Len(lines) = 1 THEN lines[1]
    ELSE lines[1] \o <<NL>> \o JoinLines(Tail(lines))

\* _dump_yaml; DumpItems is the list lines its loop builds from the i-th item
\* of a dict or a list on: one line for a scalar item, and for another item
\* the line of the key (or of the dash) and the dump of the item as one entry.
RECURSIVE DumpYaml(_, _)
RECURSIVE DumpItems(_, _, _)
DumpItems(value, indent, i) ==
    IF i > Len(value.v) THEN <<>>
    ELSE LET item == IF value.t = "dict" THEN value.v[i][2] ELSE value.v[i]
             head == IF value.t = "dict" THEN <<value.v[i][1], ":">> ELSE <<"-">>
         IN  (IF IsScalar(item)
              THEN <<Spaces(indent) \o head \o <<" ">> \o FormatScalar(item)>>
              ELSE <<Spaces(indent) \o head, DumpYaml(item, indent + 2)>>)
             \o DumpItems(value, indent, i + 1)

DumpYaml(value, indent) ==
    IF IsScalar(value) THEN Spaces(indent) \o FormatScalar(value)
    ELSE JoinLines(DumpItems(value, indent, 1))

\* The keys of the dicts serialized, in the order sorted() gives them.
SortedKeys ==
    <<"branches", "cache", "config", "doc", "file", "goal", "goto", "id", "input", "kind",
      "memory_file", "model", "name", "next", "retries", "steps", "tasks", "text", "uses",
      "when">>

KeyRank(key) == CHOOSE i \in 1..Len(SortedKeys) : SortedKeys[i] = key

\* _sort_mapping
RECURSIVE SortMapping(_)
SortMapping(value) ==
    IF value.t = "dict"
    THEN Dict(SortSeq([i \in 1..Len(value.v) |->
                          <<value.v[i][1], SortMapping(value.v[i][2])>>],
                      LAMBDA a, b : KeyRank(a[1]) < KeyRank(b[1])))
    ELSE IF value.t = "list"
    THEN List([i \in 1..Len(value.v) |-> SortMapping(value.v[i])])
    ELSE value

\* emit_yaml written as if the tasks were kept in a set: they are serialized
\* in the order given by from, any permutation.
EmitYaml_Unordered(b, sort_keys, from) ==
    LET shuffled == [b EXCEPT !.tasks = [i \in 1..Len(b.tasks) |-> b.tasks[from[i]]]]
        compiled == Compile(shuffled)
    IN  IF compiled.raised.some THEN [raised |-> compiled.raised, written |-> None]
        ELSE LET data == WorkflowAsDict(compiled.value.v)
                 serialized == IF sort_keys THEN DumpYaml(SortMapping(data), 0)
                               ELSE DumpYaml(data, 0)
             IN  [raised |-> None, written |-> Some(serialized \o <<NL>>)]

\* WorkflowBuilder.emit_yaml: what it raises, or the text it writes to path.
EmitYaml(b, sort_keys) ==
    LET compiled == Compile(b)
    IN  IF compiled.raised.some THEN [raised |-> compiled.raised, written |-> None]
        ELSE LET data == WorkflowAsDict(compiled.value.v)
                 serialized == IF sort_keys THEN DumpYaml(SortMapping(data), 0)
                               ELSE DumpYaml(data, 0)
             IN  [raised |-> None, written |-> Some(serialized \o <<NL>>)]

\* ------------------------------------------------------------------ executors.py
\* An executor object: its class and its identity.
Executor(cls, oid) == [cls |-> cls, oid |-> oid]

\* LLMExecutor.execute
LLMExecute(request) ==
    LET message == request.name \o <<" :: synthesized response">>
    IN  [status |-> "ok",
         result |-> Result(TRUE, Some(message),
                           <<"{'message': '">> \o message \o <<"', 'echo': '">>
                               \o request.input \o <<"'}">>),
         next_step |-> None,
         error |-> None]

\* ShellExecutor.execute and PythonExecutor.execute raise NotImplementedError.
IsStub(executor) == executor.cls \in {"ShellExecutor", "PythonExecutor"}

\* ------------------------------------------------------------------ factories.py
\* ExecutorFactory._key
Key(kind) == "executor:" \o kind

Keys == {Key(kind) : kind \in StepKind}

\* _Provider: the class of executor its callable builds, and the singleton flag.
Provider(factory, singleton) == [factory |-> factory, singleton |-> singleton]

\* ServiceContainer.__init__: two empty dicts (None marks an absent key).
EmptyContainer ==
    [providers |-> [key \in Keys |-> None], singletons |-> [key \in Keys |-> None]]

\* ServiceContainer.is_registered
IsRegistered(c, key) == c.providers[key].some \/ c.singletons[key].some

\* A raised exception: its type and its message.
Exc(type, msg) == [type |-> type, msg |-> msg]

AlreadyRegistered(key) == Exc("ValueError", <<"Service '", key, "' is already registered">>)

NotRegistered(key) == Exc("LookupError", <<"Service '", key, "' has not been registered">>)

\* _set_provider without the check of is_registered.
SetProvider_NoCheck(c, key, provider, override) ==
    [raised |-> None,
     c |-> [providers |-> [c.providers EXCEPT ![key] = Some(provider)],
            singletons |-> [c.singletons EXCEPT ![key] = None]]]

\* _set_provider without self._singletons.pop(key, None).
SetProvider_KeepCache(c, key, provider, override) ==
    IF ~override /\ IsRegistered(c, key)
    THEN [raised |-> Some(AlreadyRegistered(key)), c |-> c]
    ELSE [raised |-> None, c |-> [c EXCEPT !.providers[key] = Some(provider)]]

\* ServiceContainer._set_provider; raised is the exception, if any.
SetProvider(c, key, provider, override) ==
    IF ~override /\ IsRegistered(c, key)
    THEN [raised |-> Some(AlreadyRegistered(key)), c |-> c]
    ELSE [raised |-> None,
          c |-> [providers |-> [c.providers EXCEPT ![key] = Some(provider)],
                 singletons |-> [c.singletons EXCEPT ![key] = None]]]

\* ServiceContainer.register_factory
RegisterFactory(c, key, factory, override) ==
    SetProvider(c, key, Provider(factory, FALSE), override)

\* ServiceContainer.register_singleton
RegisterSingleton(c, key, factory, override) ==
    SetProvider(c, key, Provider(factory, TRUE), override)

\* register_instance that stores a singleton provider building an object like
\* the instance, instead of the instance.
RegisterInstance_AsSingleton(c, key, instance, override) ==
    SetProvider(c, key, Provider(instance.cls, TRUE), override)

\* register_instance without self._providers.pop(key, None).
RegisterInstance_KeepProvider(c, key, instance, override) ==
    IF ~override /\ IsRegistered(c, key)
    THEN [raised |-> Some(AlreadyRegistered(key)), c |-> c]
    ELSE [raised |-> None, c |-> [c EXCEPT !.singletons[key] = Some(instance)]]

\* ServiceContainer.register_instance
RegisterInstance(c, key, instance, override) ==
    IF ~override /\ IsRegistered(c, key)
    THEN [raised |-> Some(AlreadyRegistered(key)), c |-> c]
    ELSE [raised |-> None,
          c |-> [providers |-> [c.providers EXCEPT ![key] = None],
                 singletons |-> [c.singletons EXCEPT ![key] = Some(instance)]]]

\* resolve that never stores what a provider built.
Resolve_NoCache(c, key, oid) ==
    IF c.singletons[key].some
    THEN [raised |-> None, c |-> c, value |-> c.singletons[key], built |-> FALSE]
    ELSE IF ~c.providers[key].some
    THEN [raised |-> Some(NotRegistered(key)), c |-> c, value |-> None, built |-> FALSE]
    ELSE [raised |-> None, c |-> c,
          value |-> Some(Executor(c.providers[key].v.factory, oid)), built |-> TRUE]

\* resolve that stores what any provider built, singleton or not.
Resolve_CacheAll(c, key, oid) ==
    IF c.singletons[key].some
    THEN [raised |-> None, c |-> c, value |-> c.singletons[key], built |-> FALSE]
    ELSE IF ~c.providers[key].some
    THEN [raised |-> Some(NotRegistered(key)), c |-> c, value |-> None, built |-> FALSE]
    ELSE LET instance == Executor(c.providers[key].v.factory, oid)
         IN  [raised |-> None, c |-> [c EXCEPT !.singletons[key] = Some(instance)],
              value |-> Some(instance), built |-> TRUE]

\* ServiceContainer.resolve; oid is the identity a newly built object gets,
\* built tells whether the provider's callable was invoked.
Resolve(c, key, oid) ==
    IF c.singletons[key].some
    THEN [raised |-> None, c |-> c, value |-> c.singletons[key], built |-> FALSE]
    ELSE IF ~c.providers[key].some
    THEN [raised |-> Some(NotRegistered(key)), c |-> c, value |-> None, built |-> FALSE]
    ELSE LET provider == c.providers[key].v
             instance == Executor(provider.factory, oid)
         IN  [raised |-> None,
              c |-> IF provider.singleton
                    THEN [c EXCEPT !.singletons[key] = Some(instance)]
                    ELSE c,
              value |-> Some(instance),
              built |-> TRUE]

\* ServiceContainer.clear_singletons
ClearSingletons(c) == [c EXCEPT !.singletons = [key \in Keys |-> None]]

\* Create that lets the LookupError of the container through.
Create_NoTranslate(c, kind, oid) == Resolve(c, Key(kind), oid)

\* ExecutorFactory.create: a LookupError becomes a ValueError naming the kind.
Create(c, kind, oid) ==
    LET r == Resolve(c, Key(kind), oid)
    IN  IF r.raised.some /\ r.raised.v.type = "LookupError"
        THEN [r EXCEPT !.raised =
                 Some(Exc("ValueError",
                          <<"No executor registered for step kind '", kind, "'">>))]
        ELSE r

\* default that registers a stand-in for every kind.
DefaultFactory_All ==
    [providers |-> [key \in Keys |-> Some(Provider("LLMExecutor", TRUE))],
     singletons |-> [key \in Keys |-> None]]

\* ExecutorFactory.default
DefaultFactory ==
    RegisterSingleton(EmptyContainer, Key("llm"), "LLMExecutor", FALSE).c

\* ------------------------------------------------------------------ orchestrator.py
\* WorkflowOrchestrator._read_memory
ReadMemory(file) == IF ~file.exists THEN <<>> ELSE file.text

\* WorkflowOrchestrator._append_memory: opening in mode "a" creates the file.
AppendMemory(file, line) == [exists |-> TRUE, text |-> file.text \o line \o <<NL>>]

\* _format_summary that takes the message whenever the result has the key.
FormatSummary_IfPresent(step_name, response) ==
    LET result == response.result
        message == IF result.isdict /\ result.message.some THEN result.message.v ELSE result.str
    IN  <<"- ">> \o step_name \o <<": ">> \o message

\* WorkflowOrchestrator._format_summary
FormatSummary(step_name, response) ==
    LET result == response.result
        message == IF result.isdict
                   THEN (IF Truthy(result.message) THEN result.message.v ELSE result.str)
                   ELSE result.str
    IN  <<"- ">> \o step_name \o <<": ">> \o message

\* FormatError without the default: an absent error is printed as None.
FormatError_NoDefault(step_name, response) ==
    LET detail == IF response.error.some THEN response.error.v ELSE <<"None">>
    IN  <<"- ">> \o step_name \o <<": failed (">> \o detail \o <<")">>

\* WorkflowOrchestrator._format_error
FormatError(step_name, response) ==
    LET detail == IF Truthy(response.error) THEN response.error.v ELSE <<"unknown error">>
    IN  <<"- ">> \o step_name \o <<": failed (">> \o detail \o <<")">>

\* RegisterExecutors with override=False, the error swallowed: a kind that is
\* registered already keeps its registration.
RECURSIVE RegisterExecutors_NoOverride(_, _, _)
RegisterExecutors_NoOverride(c, executors, kinds) ==
    IF kinds = {} THEN c
    ELSE LET kind == CHOOSE k \in kinds : TRUE
             next == IF executors[kind].some
                     THEN RegisterInstance(c, Key(kind), executors[kind].v, FALSE).c
                     ELSE c
         IN  RegisterExecutors_NoOverride(next, executors, kinds \ {kind})

\* The loop of __init__ over executors.items(): register_instance(kind, executor, override=True).
RECURSIVE RegisterExecutors(_, _, _)
RegisterExecutors(c, executors, kinds) ==
    IF kinds = {} THEN c
    ELSE LET kind == CHOOSE k \in kinds : TRUE
             next == IF executors[kind].some
                     THEN RegisterInstance(c, Key(kind), executors[kind].v, TRUE).c
                     ELSE c
         IN  RegisterExecutors(next, executors, kinds \ {kind})

\* The safety net applied whatever is registered: the stand-in replaces it.
EnsureLLM_Always(c) == RegisterSingleton(c, Key("llm"), "LLMExecutor", TRUE).c

\* The safety net of __init__: the stand-in is registered when LLM is still unregistered.
EnsureLLM(c) ==
    IF ~IsRegistered(c, Key("llm"))
    THEN RegisterSingleton(c, Key("llm"), "LLMExecutor", FALSE).c
    ELSE c

\* __init__ with one default registry for the whole process: every orchestrator
\* built without a factory gets the first container of the heap.
OrchestratorInit_SharedDefault(heap, executor_factory, executors) ==
    LET ref == IF executor_factory.some THEN executor_factory.v ELSE 1
        base == IF executor_factory.some \/ heap # <<>> THEN heap[ref] ELSE DefaultFactory
        c == EnsureLLM(RegisterExecutors(base, executors, StepKind))
    IN  [ref |-> ref,
         heap |-> IF heap # <<>> THEN [heap EXCEPT ![ref] = c] ELSE <<c>>]

\* __init__ that works on a copy of the supplied factory and leaves the
\* caller's alone.
OrchestratorInit_Copying(heap, executor_factory, executors) ==
    LET base == IF executor_factory.some THEN heap[executor_factory.v] ELSE DefaultFactory
        c == EnsureLLM(RegisterExecutors(base, executors, StepKind))
    IN  [ref |-> Len(heap) + 1, heap |-> Append(heap, c)]

\* WorkflowOrchestrator.__init__ on the heap of containers: the supplied factory
\* (a reference into heap) or a new default one, changed in place.
OrchestratorInit(heap, executor_factory, executors) ==
    LET ref == IF executor_factory.some THEN executor_factory.v ELSE Len(heap) + 1
        base == IF executor_factory.some THEN heap[ref] ELSE DefaultFactory
        c == EnsureLLM(RegisterExecutors(base, executors, StepKind))
    IN  [ref |-> ref,
         heap |-> IF executor_factory.some THEN [heap EXCEPT ![ref] = c] ELSE Append(heap, c)]

\* ------------------------------------------------------------------ state
Orchs == {1, 2}

VARIABLES
    spec,              \* spec[o].steps: the WorkflowSpec orchestrator o was given
    observer,          \* observer[o]: None or the observer object
    executors,         \* executors[o]: the mapping kind -> executor given to __init__
    argFactory,        \* argFactory[o]: the executor_factory given to __init__, or None
    executor_factory,  \* executor_factory[o]: reference of self.executor_factory (0 before __init__)
    containers,        \* the ServiceContainers alive, by reference
    containers0,       \* the ServiceContainers as the caller supplied them
    nextOid,           \* identity of the next object a provider builds
    memory0,           \* memory0[o]: the memory file when the orchestrator was built
    memory,            \* memory[o]: the memory file, [exists, text]
    pc,                \* pc[o]: position of orchestrator o in __init__/run
    idx,               \* idx[o]: position of the for loop in spec.steps
    request,           \* request[o]: the local variable of run()
    executor,          \* executor[o]: the local variable of run()
    responses,         \* responses[o]: the local list of run()
    raised,            \* raised[o]: the exception run() ended with, or None
    script,            \* the answers the scripted executors gave: request -> response
    events,            \* events[o]: what run() did, or what caller o did to its registry, in order
    frame,             \* frame[o]: the locals of a ServiceContainer.resolve call of thread o
    workflow_builder,  \* the WorkflowBuilder: _goal, _memory_file, _tasks, _steps
    workflows          \* the WorkflowSpec objects constructed so far

vars == <<spec, observer, executors, argFactory, executor_factory, containers, containers0,
          nextOid, memory0, memory, pc, idx, request, executor, responses, raised, script, events,
          frame, workflow_builder, workflows>>

inputs == <<spec, observer, executors, argFactory, containers0, memory0>>

assembly == <<workflow_builder, workflows>>

\* No builder is in use: a new one, and no WorkflowSpec was made.
NoBuilder == workflow_builder = WorkflowBuilder /\ workflows = <<>>

Event(ev, step_id) == [ev |-> ev, step |-> step_id]

CurrentStep(o) == spec[o].steps[idx[o]]

Log(o, event) == events' = [events EXCEPT ![o] = Append(@, event)]

HasObserver(o) == observer[o].some

\* ------------------------------------------------------------------ inputs
\* The workflows the runs are given.  A step's name, input template, branches
\* and next_step are fixed by its id; its kind is llm or shell (no code tells
\* python from shell).  Ids are listed in ascending order (as
\* WorkflowBuilder.add_step numbers them) or descending.
RunKinds == {"llm", "shell"}

StepOf(id, kind) ==
    StepSpec(id,
             <<"S" \o ToString(id)>>,
             kind,
             CASE id % 3 = 1 -> None
               [] id % 3 = 2 -> Some(<<"prompt">>)
               [] OTHER -> Some(<<>>),
             IF id % 3 = 0 THEN <<Branch("always", 1)>> ELSE <<>>,
             IF id % 3 = 2 THEN Some(1) ELSE None)

IdOrders(n) == {[i \in 1..n |-> i], [i \in 1..n |-> n + 1 - i]}

\* The kinds of a workflow's steps: one kind at the odd positions and one at
\* the even positions, so that a registration serves several steps or one.
KindOrders(n) == {[i \in 1..n |-> IF i % 2 = 1 THEN odd ELSE even] : odd, even \in RunKinds}

Workflows ==
    UNION {{[i \in 1..n |-> StepOf(ids[i], kinds[i])] :
               ids \in IdOrders(n), kinds \in KindOrders(n)} : n \in 0..MaxSteps}

\* What an executor written by the user may answer.
ScriptResponses ==
    {StepResponse("ok", Result(TRUE, Some(<<"done">>), <<"{'message': 'done'}">>), None, None),
     StepResponse("ok", Result(TRUE, Some(<<"a", NL, "b">>), <<"{'message': 'a\\nb'}">>),
                  None, None),
     StepResponse("retry", NoResult, Some(1), None),
     StepResponse("fail", NoResult, None, Some(<<"boom">>)),
     StepResponse("fail", NoResult, Some(2), None),
     StepResponse("fail", NoResult, None, Some(<<>>))}

\* What an executor that reports in several forms may answer: a dict with a
\* message, with an empty message, without the key, a result that is no dict,
\* and a failure.
ReportResponses ==
    {StepResponse("ok", Result(TRUE, Some(<<"done">>), <<"{'message': 'done'}">>), None, None),
     StepResponse("ok", Result(TRUE, Some(<<>>), <<"{'message': ''}">>), None, None),
     StepResponse("ok", Result(TRUE, None, <<"{'echo': 'x'}">>), None, None),
     StepResponse("retry", Result(FALSE, None, <<"['a', 'b']">>), None, None),
     StepResponse("fail", NoResult, None, Some(<<"boom">>))}

\* The executors the caller built itself.
Recording(n) == Executor("Scripted", n)

NoExecutors == [kind \in StepKind |-> None]

ExecutorMaps ==
    {NoExecutors,
     [NoExecutors EXCEPT !["llm"] = Some(Recording(1))],
     [NoExecutors EXCEPT !["llm"] = Some(Recording(1)), !["shell"] = Some(Recording(2))]}

\* The registries the caller may supply: for the kinds llm and shell, each of
\* nothing, a factory, a singleton not yet resolved, a singleton already
\* resolved (cached) and an instance is registered in one of them.
ShellInstance == RegisterInstance(EmptyContainer, Key("shell"), Recording(3), FALSE).c

Factories ==
    RegisterSingleton(
        RegisterFactory(
            RegisterFactory(EmptyContainer, Key("llm"), "Scripted", FALSE).c,
            Key("shell"), "ShellExecutor", FALSE).c,
        Key("python"), "Scripted", FALSE).c

Singletons ==
    RegisterSingleton(
        Resolve(RegisterSingleton(EmptyContainer, Key("llm"), "Scripted", FALSE).c,
                Key("llm"), 4).c,
        Key("shell"), "Scripted", FALSE).c

Cached ==
    Resolve(RegisterSingleton(
                RegisterInstance(EmptyContainer, Key("llm"), Recording(5), FALSE).c,
                Key("shell"), "Scripted", FALSE).c,
            Key("shell"), 6).c

SuppliedFactories == {EmptyContainer, ShellInstance, Factories, Singletons, Cached}

\* templates.py: the memory.md a scaffolded workflow folder starts with.
TemplateMemory == <<"# Workflow Memory", NL, NL, "Session memory for workflow execution.">>

MemoryFiles ==
    {[exists |-> FALSE, text |-> <<>>],
     [exists |-> TRUE, text |-> TemplateMemory]}

TheObserver == Some("observer")

\* ------------------------------------------------------------------ initial states
Unused(o) ==
    /\ spec[o] = [steps |-> <<>>]
    /\ observer[o] = None
    /\ executors[o] = NoExecutors
    /\ argFactory[o] = None
    /\ memory0[o] = [exists |-> FALSE, text |-> <<>>]

Locals(first) ==
    /\ containers0 = containers
    /\ executor_factory = [o \in Orchs |-> 0]
    /\ nextOid = 10
    /\ memory = memory0
    /\ pc = [o \in Orchs |-> IF o \in first THEN "new" ELSE "unused"]
    /\ idx = [o \in Orchs |-> 0]
    /\ request = [o \in Orchs |-> None]
    /\ executor = [o \in Orchs |-> None]
    /\ responses = [o \in Orchs |-> <<>>]
    /\ raised = [o \in Orchs |-> None]
    /\ script = {}
    /\ events = [o \in Orchs |-> <<>>]
    /\ frame = [o \in Orchs |-> None]
    /\ NoBuilder

\* One orchestrator, built from any of the inputs above.
Init ==
    /\ \E w \in Workflows : spec = [o \in Orchs |-> [steps |-> IF o = 1 THEN w ELSE <<>>]]
    /\ \E ob \in {None, TheObserver} : observer = [o \in Orchs |-> IF o = 1 THEN ob ELSE None]
    /\ \E m \in ExecutorMaps : executors = [o \in Orchs |-> IF o = 1 THEN m ELSE NoExecutors]
    /\ \/ argFactory = [o \in Orchs |-> None] /\ containers = <<>>
       \/ \E c \in SuppliedFactories :
             /\ argFactory = [o \in Orchs |-> IF o = 1 THEN Some(1) ELSE None]
             /\ containers = <<c>>
    /\ \E f \in MemoryFiles :
          memory0 = [o \in Orchs |-> IF o = 1 THEN f ELSE [exists |-> FALSE, text |-> <<>>]]
    /\ Locals({1})

\* ------------------------------------------------------------------ actions
\* WorkflowOrchestrator.__init__
Construct(o) ==
    /\ pc[o] = "new"
    /\ LET r == OrchestratorInit(containers, argFactory[o], executors[o])
       IN  /\ containers' = r.heap
           /\ executor_factory' = [executor_factory EXCEPT ![o] = r.ref]
    /\ pc' = [pc EXCEPT ![o] = "ready"]
    /\ UNCHANGED <<inputs, assembly, frame, nextOid, memory, idx, request, executor, responses, raised,
                   script, events>>

\* run() is called: responses = [] and the for loop starts.
Run(o) ==
    /\ pc[o] = "ready"
    /\ pc' = [pc EXCEPT ![o] = "loop"]
    /\ idx' = [idx EXCEPT ![o] = 1]
    /\ responses' = [responses EXCEPT ![o] = <<>>]
    /\ UNCHANGED <<inputs, assembly, frame, executor_factory, containers, nextOid, memory, request, executor,
                   raised, script, events>>

\* BuildRequest with the memory read once, before the loop.
BuildRequest_Stale(o) ==
    /\ pc[o] = "loop"
    /\ idx[o] <= Len(spec[o].steps)
    /\ request' = [request EXCEPT ![o] = Some(StepRequest(CurrentStep(o), ReadMemory(memory0[o])))]
    /\ Log(o, Event("request", CurrentStep(o).id))
    /\ pc' = [pc EXCEPT ![o] = "notify_start"]
    /\ UNCHANGED <<inputs, assembly, frame, executor_factory, containers, nextOid, memory, idx, executor,
                   responses, raised, script>>

\* The loop takes the next step and builds its StepRequest, reading the memory file.
BuildRequest(o) ==
    /\ pc[o] = "loop"
    /\ idx[o] <= Len(spec[o].steps)
    /\ request' = [request EXCEPT ![o] = Some(StepRequest(CurrentStep(o), ReadMemory(memory[o])))]
    /\ Log(o, Event("request", CurrentStep(o).id))
    /\ pc' = [pc EXCEPT ![o] = "notify_start"]
    /\ UNCHANGED <<inputs, assembly, frame, executor_factory, containers, nextOid, memory, idx, executor,
                   responses, raised, script>>

\* _notify_start
NotifyStart(o) ==
    /\ pc[o] = "notify_start"
    /\ IF HasObserver(o)
       THEN Log(o, Event("start", request[o].v.step_id))
       ELSE UNCHANGED events
    /\ pc' = [pc EXCEPT ![o] = "create"]
    /\ UNCHANGED <<inputs, assembly, frame, executor_factory, containers, nextOid, memory, idx, request,
                   executor, responses, raised, script>>

\* CreateExecutor that ends the loop when no executor is found, so that run()
\* returns the responses it has.
CreateExecutor_Returning(o) ==
    /\ pc[o] = "create"
    /\ LET ref == executor_factory[o]
           r == Create(containers[ref], CurrentStep(o).kind, nextOid)
       IN  /\ containers' = [containers EXCEPT ![ref] = r.c]
           /\ nextOid' = IF r.built THEN nextOid + 1 ELSE nextOid
           /\ executor' = [executor EXCEPT ![o] = r.value]
           /\ pc' = [pc EXCEPT ![o] = IF r.raised.some THEN "break" ELSE "execute"]
           /\ Log(o, [ev |-> "create", step |-> CurrentStep(o).id, ok |-> ~r.raised.some])
    /\ UNCHANGED <<inputs, assembly, frame, executor_factory, memory, idx, request, responses, raised,
                   script>>

\* executor = self.executor_factory.create(step.kind); a ValueError ends run().
CreateExecutor(o) ==
    /\ pc[o] = "create"
    /\ LET ref == executor_factory[o]
           r == Create(containers[ref], CurrentStep(o).kind, nextOid)
       IN  /\ containers' = [containers EXCEPT ![ref] = r.c]
           /\ nextOid' = IF r.built THEN nextOid + 1 ELSE nextOid
           /\ executor' = [executor EXCEPT ![o] = r.value]
           /\ raised' = [raised EXCEPT ![o] = r.raised]
           /\ pc' = [pc EXCEPT ![o] = IF r.raised.some THEN "raised" ELSE "execute"]
           /\ Log(o, [ev |-> "create", step |-> CurrentStep(o).id, ok |-> ~r.raised.some])
    /\ UNCHANGED <<inputs, assembly, frame, executor_factory, memory, idx, request, responses, script>>

\* The answers an executor may give to a request: the stand-in's canned answer,
\* any of its answers for an executor that reports in several forms, or any answer of a scripted executor that agrees with what it answered to
\* the same request before.
Answers(e, rq) ==
    IF e.cls = "LLMExecutor" THEN {LLMExecute(rq)}
    ELSE IF e.cls = "Reporter" THEN ReportResponses
    ELSE {r \in ScriptResponses : \A p \in script : p.request = rq => p.response = r}

\* response = executor.execute(request); responses.append(response)
Execute(o) ==
    /\ pc[o] = "execute"
    /\ ~IsStub(executor[o].v)
    /\ \E r \in Answers(executor[o].v, request[o].v) :
          /\ responses' = [responses EXCEPT ![o] = Append(@, r)]
          /\ script' = IF executor[o].v.cls = "Scripted"
                       THEN script \cup {[request |-> request[o].v, response |-> r]}
                       ELSE script
          /\ events' = [events EXCEPT ![o] =
                 @ \o <<[ev |-> "execute", step |-> request[o].v.step_id,
                         executor |-> executor[o].v, request |-> request[o].v],
                        [ev |-> "response", step |-> request[o].v.step_id, response |-> r]>>]
    /\ pc' = [pc EXCEPT ![o] = "notify"]
    /\ UNCHANGED <<inputs, assembly, frame, executor_factory, containers, nextOid, memory, idx, request,
                   executor, raised>>

\* executor.execute(request) of a placeholder executor: NotImplementedError ends run().
ExecuteStub(o) ==
    /\ pc[o] = "execute"
    /\ IsStub(executor[o].v)
    /\ Log(o, [ev |-> "execute", step |-> request[o].v.step_id,
               executor |-> executor[o].v, request |-> request[o].v])
    /\ raised' = [raised EXCEPT ![o] = Some(Exc("NotImplementedError", <<>>))]
    /\ pc' = [pc EXCEPT ![o] = "raised"]
    /\ UNCHANGED <<inputs, assembly, frame, executor_factory, containers, nextOid, memory, idx, request,
                   executor, responses, script>>

LastResponse(o) == responses[o][Len(responses[o])]

\* NotifyError that calls on_step_finish.
NotifyError_AsFinish(o) ==
    /\ pc[o] = "notify"
    /\ LastResponse(o).status = "fail"
    /\ IF HasObserver(o)
       THEN Log(o, Event("finish", request[o].v.step_id))
       ELSE UNCHANGED events
    /\ pc' = [pc EXCEPT ![o] = "append_error"]
    /\ UNCHANGED <<inputs, assembly, frame, executor_factory, containers, nextOid, memory, idx, request,
                   executor, responses, raised, script>>

\* if response.status == "fail": self._notify_error(request, response)
NotifyError(o) ==
    /\ pc[o] = "notify"
    /\ LastResponse(o).status = "fail"
    /\ IF HasObserver(o)
       THEN Log(o, Event("error", request[o].v.step_id))
       ELSE UNCHANGED events
    /\ pc' = [pc EXCEPT ![o] = "append_error"]
    /\ UNCHANGED <<inputs, assembly, frame, executor_factory, containers, nextOid, memory, idx, request,
                   executor, responses, raised, script>>

\* AppendError without the break: the loop goes on to the next step.
AppendError_NoBreak(o) ==
    /\ pc[o] = "append_error"
    /\ LET line == FormatError(CurrentStep(o).name, LastResponse(o))
       IN  /\ memory' = [memory EXCEPT ![o] = AppendMemory(@, line)]
           /\ Log(o, [ev |-> "append", step |-> CurrentStep(o).id, line |-> line])
    /\ idx' = [idx EXCEPT ![o] = @ + 1]
    /\ pc' = [pc EXCEPT ![o] = "loop"]
    /\ UNCHANGED <<inputs, assembly, frame, executor_factory, containers, nextOid, request, executor,
                   responses, raised, script>>

\* self._append_memory(self._format_error(step.name, response)); break
AppendError(o) ==
    /\ pc[o] = "append_error"
    /\ LET line == FormatError(CurrentStep(o).name, LastResponse(o))
       IN  /\ memory' = [memory EXCEPT ![o] = AppendMemory(@, line)]
           /\ Log(o, [ev |-> "append", step |-> CurrentStep(o).id, line |-> line])
    /\ pc' = [pc EXCEPT ![o] = "break"]
    /\ UNCHANGED <<inputs, assembly, frame, executor_factory, containers, nextOid, idx, request, executor,
                   responses, raised, script>>

\* NotifyFinish with the append of the summary nested under `if self.observer`.
NotifyFinish_ObservedOnly(o) ==
    /\ pc[o] = "notify"
    /\ LastResponse(o).status # "fail"
    /\ IF HasObserver(o)
       THEN /\ Log(o, Event("finish", request[o].v.step_id))
            /\ pc' = [pc EXCEPT ![o] = "append_summary"]
            /\ idx' = idx
       ELSE /\ UNCHANGED events
            /\ pc' = [pc EXCEPT ![o] = "loop"]
            /\ idx' = [idx EXCEPT ![o] = @ + 1]
    /\ UNCHANGED <<inputs, assembly, frame, executor_factory, containers, nextOid, memory, request,
                   executor, responses, raised, script>>

\* NotifyFinish placed after the append of the summary line.
NotifyFinish_AfterAppend(o) ==
    /\ pc[o] = "notify"
    /\ LastResponse(o).status # "fail"
    /\ LET line == FormatSummary(CurrentStep(o).name, LastResponse(o))
       IN  /\ memory' = [memory EXCEPT ![o] = AppendMemory(@, line)]
           /\ events' = [events EXCEPT ![o] =
                  @ \o <<[ev |-> "append", step |-> CurrentStep(o).id, line |-> line]>>
                    \o (IF HasObserver(o) THEN <<Event("finish", request[o].v.step_id)>>
                        ELSE <<>>)]
    /\ idx' = [idx EXCEPT ![o] = @ + 1]
    /\ pc' = [pc EXCEPT ![o] = "loop"]
    /\ UNCHANGED <<inputs, assembly, frame, executor_factory, containers, nextOid, request,
                   executor, responses, raised, script>>

\* otherwise: self._notify_finish(request, response)
NotifyFinish(o) ==
    /\ pc[o] = "notify"
    /\ LastResponse(o).status # "fail"
    /\ IF HasObserver(o)
       THEN Log(o, Event("finish", request[o].v.step_id))
       ELSE UNCHANGED events
    /\ pc' = [pc EXCEPT ![o] = "append_summary"]
    /\ UNCHANGED <<inputs, assembly, frame, executor_factory, containers, nextOid, memory, idx, request,
                   executor, responses, raised, script>>

\* AppendSummary that honours the next_step of the response: the loop goes on
\* at the step with that id, if there is one.
AppendSummary_Jump(o) ==
    /\ pc[o] = "append_summary"
    /\ LET line == FormatSummary(CurrentStep(o).name, LastResponse(o))
       IN  /\ memory' = [memory EXCEPT ![o] = AppendMemory(@, line)]
           /\ Log(o, [ev |-> "append", step |-> CurrentStep(o).id, line |-> line])
    /\ LET target == {i \in 1..Len(spec[o].steps) :
                         /\ LastResponse(o).next_step.some
                         /\ spec[o].steps[i].id = LastResponse(o).next_step.v}
       IN  idx' = [idx EXCEPT ![o] = IF target = {} THEN @ + 1 ELSE CHOOSE i \in target : TRUE]
    /\ pc' = [pc EXCEPT ![o] = "loop"]
    /\ UNCHANGED <<inputs, assembly, frame, executor_factory, containers, nextOid, request, executor,
                   responses, raised, script>>

\* AppendSummary that runs a step answered "retry" once more.
AppendSummary_Retrying(o) ==
    /\ pc[o] = "append_summary"
    /\ LET line == FormatSummary(CurrentStep(o).name, LastResponse(o))
       IN  /\ memory' = [memory EXCEPT ![o] = AppendMemory(@, line)]
           /\ Log(o, [ev |-> "append", step |-> CurrentStep(o).id, line |-> line])
    /\ idx' = [idx EXCEPT ![o] =
                  IF /\ LastResponse(o).status = "retry"
                     /\ Cardinality({i \in 1..Len(events[o]) :
                                        /\ events[o][i].ev = "execute"
                                        /\ events[o][i].step = CurrentStep(o).id}) < 2
                  THEN @ ELSE @ + 1]
    /\ pc' = [pc EXCEPT ![o] = "loop"]
    /\ UNCHANGED <<inputs, assembly, frame, executor_factory, containers, nextOid, request, executor,
                   responses, raised, script>>

\* self._append_memory(self._format_summary(step.name, response)); next iteration
AppendSummary(o) ==
    /\ pc[o] = "append_summary"
    /\ LET line == FormatSummary(CurrentStep(o).name, LastResponse(o))
       IN  /\ memory' = [memory EXCEPT ![o] = AppendMemory(@, line)]
           /\ Log(o, [ev |-> "append", step |-> CurrentStep(o).id, line |-> line])
    /\ idx' = [idx EXCEPT ![o] = @ + 1]
    /\ pc' = [pc EXCEPT ![o] = "loop"]
    /\ UNCHANGED <<inputs, assembly, frame, executor_factory, containers, nextOid, request, executor,
                   responses, raised, script>>

\* return responses: after the break, or when the steps are exhausted.
Return(o) ==
    /\ \/ pc[o] = "break"
       \/ pc[o] = "loop" /\ idx[o] > Len(spec[o].steps)
    /\ Log(o, [ev |-> "return", step |-> 0, after |-> pc[o]])
    /\ pc' = [pc EXCEPT ![o] = "returned"]
    /\ UNCHANGED <<inputs, assembly, frame, executor_factory, containers, nextOid, memory, idx, request,
                   executor, responses, raised, script>>

Step(o) ==
    \/ Construct(o)
    \/ Run(o)
    \/ BuildRequest(o)
    \/ NotifyStart(o)
    \/ CreateExecutor(o)
    \/ Execute(o)
    \/ ExecuteStub(o)
    \/ NotifyError(o)
    \/ AppendError(o)
    \/ NotifyFinish(o)
    \/ AppendSummary(o)
    \/ Return(o)

\* run() has returned or raised (or there is no such orchestrator).
Terminated(o) == pc[o] \in {"returned", "raised", "unused"}

Next == \E o \in Orchs : Step(o)

Spec == Init /\ [][Next]_vars

\* run() is straight-line code around a for loop: a statement that can run, runs.
FairSpec == Spec /\ WF_vars(Next)

\* Two runs on the same inputs in two copies of the world, the first with an
\* observer and the second without; the second starts when the first has ended.
InitPair ==
    /\ \E w \in Workflows : spec = [o \in Orchs |-> [steps |-> w]]
    /\ observer = [o \in Orchs |-> IF o = 1 THEN TheObserver ELSE None]
    /\ \E m \in ExecutorMaps : executors = [o \in Orchs |-> m]
    /\ \/ argFactory = [o \in Orchs |-> None] /\ containers = <<>>
       \/ \E c \in SuppliedFactories :
             /\ argFactory = [o \in Orchs |-> Some(o)]
             /\ containers = <<c, c>>
    /\ \E f \in MemoryFiles : memory0 = [o \in Orchs |-> f]
    /\ Locals(Orchs)

\* The second run waits for the first to end.
Turn(o) == o = 2 => Terminated(1)

PairStep(o) ==
    \/ Turn(o) /\ Construct(o)
    \/ Turn(o) /\ Run(o)
    \/ Turn(o) /\ BuildRequest(o)
    \/ Turn(o) /\ NotifyStart(o)
    \/ Turn(o) /\ CreateExecutor(o)
    \/ Turn(o) /\ Execute(o)
    \/ Turn(o) /\ ExecuteStub(o)
    \/ Turn(o) /\ NotifyError(o)
    \/ Turn(o) /\ AppendError(o)
    \/ Turn(o) /\ NotifyFinish(o)
    \/ Turn(o) /\ AppendSummary(o)
    \/ Turn(o) /\ Return(o)

NextPair == \E o \in Orchs : PairStep(o)

SpecPair == InitPair /\ [][NextPair]_vars

\* ------------------------------------------------------------------ what a run did
IsExecute(e) == e.ev = "execute"

IsResponse(e) == e.ev = "response"

IsAppend(e) == e.ev = "append"

IsNotification(e) == e.ev \in {"start", "finish", "error"}

\* The executor invocations, the answers and the memory appends of run o, in order.
Executions(o) == SelectSeq(events[o], IsExecute)

Answered(o) == SelectSeq(events[o], IsResponse)

Appends(o) == SelectSeq(events[o], IsAppend)

Notifications(o) == SelectSeq(events[o], IsNotification)

Failing(o) == {i \in 1..Len(responses[o]) : responses[o][i].status = "fail"}

\* ------------------------------------------------------------------ C1
\* C1: once an executor has answered with status "fail", no executor is
\* invoked any more in that run, and the list run() returns is the list of the
\* answers given so far, in order, with the failing answer last.
C1_HaltsOnFail ==
    \A o \in Orchs :
        /\ \A i \in 1..Len(events[o]) :
              (IsResponse(events[o][i]) /\ events[o][i].response.status = "fail")
                  => \A j \in (i + 1)..Len(events[o]) : ~IsExecute(events[o][j])
        /\ pc[o] = "returned" =>
              /\ responses[o] = [i \in 1..Len(Answered(o)) |-> Answered(o)[i].response]
              /\ Failing(o) \subseteq {Len(responses[o])}

\* A run that returned after a failing step, with steps left that never ran.
C1_Witness ==
    /\ pc[1] = "returned"
    /\ Failing(1) # {}
    /\ Len(responses[1]) < Len(spec[1].steps)
    /\ Len(Executions(1)) = Len(responses[1])

\* ------------------------------------------------------------------ C2
\* The step of run o with the given id (ids are unique in a WorkflowSpec).
StepWithId(o, id) ==
    spec[o].steps[CHOOSE i \in 1..Len(spec[o].steps) : spec[o].steps[i].id = id]

EndsWith(text, tail) ==
    Len(tail) <= Len(text) /\ SubSeq(text, Len(text) - Len(tail) + 1, Len(text)) = tail

\* The failure line of the specification: "- {step name}: failed ({error})",
\* with "unknown error" when no error is given.
FailureLine(name, response) ==
    <<"- ">> \o name \o <<": failed (">>
        \o (IF response.error = None \/ response.error = Some(<<>>)
            THEN <<"unknown error">> ELSE response.error.v)
        \o <<")">>

\* C2: a step that answers "fail" never makes run() raise: run() goes on to
\* return the responses so far, and when it has returned, the last line it
\* appended to memory is the failure line of the failing step.
C2_FailureIsData ==
    \A o \in Orchs :
        Failing(o) # {} =>
            /\ raised[o] = None
            /\ pc[o] \in {"notify", "append_error", "break", "returned"}
            /\ pc[o] = "returned" =>
                  LET n == Len(responses[o])
                      name == StepWithId(o, Answered(o)[n].step).name
                      line == FailureLine(name, responses[o][n])
                  IN  /\ Len(Appends(o)) = n
                      /\ Appends(o)[n].line = line
                      /\ EndsWith(memory[o].text, line \o <<NL>>)

\* Scenario C: step 1 answers ok, step 2 fails with error "boom", a third step is left.
C2_Witness ==
    /\ pc[1] = "returned"
    /\ Len(spec[1].steps) = 3
    /\ Len(responses[1]) = 2
    /\ responses[1][1].status = "ok"
    /\ responses[1][2].status = "fail"
    /\ responses[1][2].error = Some(<<"boom">>)
    /\ spec[1].steps[2].id = 2
    /\ memory[1].text = memory0[1].text
           \o <<"- ", "S1", ": ", "done", NL, "- ", "S2", ": failed (", "boom", ")", NL>>

\* ------------------------------------------------------------------ C4
RECURSIVE Lines(_, _)
\* The text of the first k appends of run o, as _append_memory wrote them.
Lines(o, k) ==
    IF k = 0 THEN <<>> ELSE Lines(o, k - 1) \o Appends(o)[k].line \o <<NL>>

\* C4: the memory_text of the request of the k-th executed step is the memory
\* file as it was after the (k-1)-th append: the initial contents (empty when
\* there was no file) followed by the lines of the earlier steps.
C4_MemoryReadFresh ==
    \A o \in Orchs :
        \A k \in 1..Len(Executions(o)) :
            Executions(o)[k].request.memory_text =
                (IF memory0[o].exists THEN memory0[o].text ELSE <<>>) \o Lines(o, k - 1)

\* No memory file at the start: the first request sees "", the second the first line.
C4_Witness ==
    /\ ~memory0[1].exists
    /\ Len(Executions(1)) >= 2
    /\ Executions(1)[1].request.memory_text = <<>>
    /\ Executions(1)[2].request.memory_text = Appends(1)[1].line \o <<NL>>

\* ------------------------------------------------------------------ C5
IsRequest(e) == e.ev = "request"

\* The steps the loop of run o reached, in order.
Reached(o) == SelectSeq(events[o], IsRequest)

\* C5: the steps a run reaches, and those it executes, are the steps of the
\* workflow in list order, one after the other from the first, whatever the
\* branches and next_step of the steps and the next_step of the responses.
C5_Sequential ==
    \A o \in Orchs :
        /\ Len(Reached(o)) <= Len(spec[o].steps)
        /\ \A k \in 1..Len(Reached(o)) : Reached(o)[k].step = spec[o].steps[k].id
        /\ \A k \in 1..Len(Executions(o)) : Executions(o)[k].step = spec[o].steps[k].id

\* A run over the steps 3, 2, 1 whose first answer asks for step 1 next, whose
\* first step has a branch and whose second step has a next_step: all ran in list order.
C5_Witness ==
    /\ Len(spec[1].steps) = 3
    /\ spec[1].steps[1].id = 3
    /\ spec[1].steps[1].branches # <<>>
    /\ spec[1].steps[2].next_step = Some(1)
    /\ Len(Executions(1)) = 3
    /\ Answered(1)[1].response.next_step = Some(1)
    /\ Executions(1)[2].step = 2

\* ------------------------------------------------------------------ C3
\* What run o has added to the memory file.
Appended(o) == SubSeq(memory[o].text, Len(memory0[o].text) + 1, Len(memory[o].text))

\* C3: the memory file only grows, by exactly one line for every step that
\* has appended, so that a run that returned has appended as many lines as
\* it returns responses.
C3_OneLinePerStep ==
    \A o \in Orchs :
        /\ IsPrefix(memory0[o].text, memory[o].text)
        /\ LineCount(Appended(o)) = Len(Appends(o))
        /\ pc[o] = "returned" => LineCount(Appended(o)) = Len(responses[o])

\* ------------------------------------------------------------------ C6
NoExecutorFor(kind) ==
    Exc("ValueError", <<"No executor registered for step kind '", kind, "'">>)

\* C6: when the run comes to resolve the executor of a step whose kind is not
\* registered, run() raises the error that names the kind, the memory file
\* is left as it was, and no executor was invoked and no line appended for
\* that step.
C6_UnregisteredKindFails ==
    [][\A o \in Orchs :
          (/\ pc[o] = "create"
           /\ pc'[o] # "create"
           /\ ~IsRegistered(containers[executor_factory[o]], Key(CurrentStep(o).kind)))
              => /\ pc'[o] = "raised"
                 /\ raised'[o] = Some(NoExecutorFor(CurrentStep(o).kind))
                 /\ memory'[o] = memory[o]
                 /\ responses'[o] = responses[o]
                 /\ \A i \in 1..Len(events'[o]) :
                       events'[o][i].step = CurrentStep(o).id
                           => events'[o][i].ev \notin {"execute", "response", "append"}]_vars

\* Scenario B: a sole shell step and a supplied registry with nothing registered for shell.
C6_Witness ==
    /\ pc[1] = "raised"
    /\ Len(spec[1].steps) = 1
    /\ spec[1].steps[1].kind = "shell"
    /\ argFactory[1] = Some(1)
    /\ raised[1] = Some(NoExecutorFor("shell"))
    /\ memory[1] = memory0[1]
    /\ Executions(1) = <<>>

\* ------------------------------------------------------------------ C7
\* The states of the specification's state machine, read off the position of run().
RunState(o) ==
    CASE pc[o] \in {"unused", "new", "ready"} -> <<"Pending">>
      [] pc[o] = "raised" -> <<"Raised">>
      [] pc[o] = "break" -> <<"Failed">>
      [] pc[o] = "returned" ->
            IF events[o][Len(events[o])].after = "break" THEN <<"Failed">> ELSE <<"Finished">>
      [] pc[o] = "loop" /\ idx[o] > Len(spec[o].steps) -> <<"Finished">>
      [] OTHER -> <<"Running", idx[o]>>

\* Pending -> Running(1); Running(i) -> Running(i+1), Finished, Failed (or the
\* run raises); a workflow without steps goes from Pending to Finished.
Follows(o, from, to) ==
    \/ from = to
    \/ from = <<"Pending">> /\ to = <<"Running", 1>>
    \/ from = <<"Pending">> /\ to = <<"Finished">> /\ spec[o].steps = <<>>
    \/ /\ from[1] = "Running"
       /\ to \in {<<"Running", from[2] + 1>>, <<"Finished">>, <<"Failed">>, <<"Raised">>}

\* A run raises only when a kind is unregistered or a placeholder executor is called.
RaisedOnlyBy(o) ==
    pc[o] = "raised" =>
        \/ \E i \in 1..Len(events[o]) : events[o][i].ev = "create" /\ ~events[o][i].ok
        \/ IsStub(Executions(o)[Len(Executions(o))].executor)

\* C7: a run moves along Pending -> Running(i) -> {Running(i+1), Finished,
\* Failed}; it ends Finished exactly when all steps were executed and none
\* answered "fail", Failed exactly when an executed step answered "fail";
\* nothing happens after the end; and every run comes to an end, which is
\* Finished or Failed unless a kind was unregistered or a placeholder called.
C7_StateMachine ==
    /\ [](\A o \in Orchs :
             /\ RunState(o) = <<"Finished">> <=>
                    /\ pc[o] \in {"loop", "returned"}
                    /\ Len(Executions(o)) = Len(spec[o].steps)
                    /\ Len(responses[o]) = Len(spec[o].steps)
                    /\ Failing(o) = {}
             /\ RunState(o) = <<"Failed">> <=>
                    pc[o] \in {"break", "returned"} /\ Failing(o) # {}
             /\ RaisedOnlyBy(o))
    /\ [][\A o \in Orchs :
             /\ Follows(o, RunState(o), RunState(o)')
             /\ pc[o] \in {"returned", "raised"} =>
                   /\ pc'[o] = pc[o]
                   /\ events'[o] = events[o]
                   /\ memory'[o] = memory[o]
                   /\ responses'[o] = responses[o]]_vars
    /\ <>(pc[1] \in {"returned", "raised"})

\* A run of three steps that finished, and in it the second step was running.
C7_Witness ==
    /\ RunState(1) = <<"Finished">>
    /\ pc[1] = "returned"
    /\ Len(spec[1].steps) = 3
    /\ Len(responses[1]) = 3

\* ------------------------------------------------------------------ C8
Closing(response) == IF response.status = "fail" THEN "error" ELSE "finish"

Count(o, ev, id) ==
    Cardinality({i \in 1..Len(events[o]) : events[o][i].ev = ev /\ events[o][i].step = id})

\* C8: with an observer, the notifications of a run come in pairs, the start
\* of a step and then its finish or its error, of the same step; the start
\* of a step comes before its executor is resolved and invoked, and once
\* only; the answer of the executor is followed at once by on_step_error
\* when its status is "fail" and by on_step_finish otherwise, never by both.
\* Without an observer nothing is notified.
C8_Notifications ==
    \A o \in Orchs :
        LET N == Notifications(o)
            E == events[o]
        IN  /\ ~HasObserver(o) => N = <<>>
            /\ HasObserver(o) =>
                  /\ \A i \in 1..Len(N) :
                        IF i % 2 = 1 THEN N[i].ev = "start"
                        ELSE N[i].ev \in {"finish", "error"} /\ N[i].step = N[i - 1].step
                  /\ \A p \in 1..Len(E) :
                        /\ E[p].ev \in {"create", "execute"} =>
                              /\ Count(o, "start", E[p].step) = 1
                              /\ \E q \in 1..(p - 1) : E[q] = Event("start", E[p].step)
                        /\ (E[p].ev = "response" /\ p < Len(E)) =>
                              /\ E[p + 1] = Event(Closing(E[p].response), E[p].step)
                              /\ Count(o, "finish", E[p].step) + Count(o, "error", E[p].step) = 1

\* An observed run: the first step finished, the second failed.
C8_Witness ==
    /\ HasObserver(1)
    /\ pc[1] = "returned"
    /\ Len(Notifications(1)) = 4
    /\ Notifications(1)[2].ev = "finish"
    /\ Notifications(1)[4].ev = "error"
    /\ Notifications(1)[3].step = Notifications(1)[4].step
    /\ Notifications(1)[1].step # Notifications(1)[3].step

\* ------------------------------------------------------------------ C9
\* What the executors of run o saw and answered, the objects aside.
Calls(o) ==
    [k \in 1..Len(Executions(o)) |->
        [cls |-> Executions(o)[k].executor.cls, request |-> Executions(o)[k].request]]

\* The executors invoked by the two runs are the same objects: the caller's
\* own where the caller supplied them, and otherwise objects that the
\* registries built alike (the same one twice in one run, the same one twice in the other).
SameExecutors ==
    /\ Len(Executions(1)) = Len(Executions(2))
    /\ \A i \in 1..Len(Executions(1)) :
          LET e1 == Executions(1)[i].executor
              e2 == Executions(2)[i].executor
          IN  /\ e1.cls = e2.cls
              /\ (\E kind \in StepKind : executors[1][kind] = Some(e1)) => e1 = e2
              /\ \A j \in 1..Len(Executions(1)) :
                    (e1 = Executions(1)[j].executor) <=> (e2 = Executions(2)[j].executor)

\* C9: of two runs on the same workflow, registry, executors and initial
\* memory, one with an observer and one without, both end the same way,
\* having invoked the same executors in the same order with the same
\* requests, with the same responses and the same memory contents.
C9_ObserverIsPassive ==
    (Terminated(1) /\ Terminated(2)) =>
        /\ pc[1] = pc[2]
        /\ raised[1] = raised[2]
        /\ SameExecutors
        /\ Calls(1) = Calls(2)
        /\ responses[1] = responses[2]
        /\ memory[1] = memory[2]

\* Both runs have ended after two steps each, and only the first was notified.
C9_Witness ==
    /\ pc[1] = "returned"
    /\ pc[2] = "returned"
    /\ Len(Executions(2)) >= 2
    /\ Notifications(1) # <<>>
    /\ Notifications(2) = <<>>

\* ------------------------------------------------------------------ C10
\* C10: once the orchestrator is built, every kind of the executors mapping
\* resolves to the mapped executor, without any callable being invoked,
\* whatever the registry held for that kind; every executed step of such a
\* kind is handed to the mapped executor, once.
C10_MappingOverrides ==
    \A o \in Orchs :
        pc[o] \notin {"new", "unused"} =>
            \A kind \in StepKind :
                executors[o][kind].some =>
                    /\ LET r == Resolve(containers[executor_factory[o]], Key(kind), nextOid)
                       IN  r.value = executors[o][kind] /\ ~r.built /\ r.raised = None
                    /\ \A k \in 1..Len(Executions(o)) :
                          StepWithId(o, Executions(o)[k].step).kind = kind =>
                              /\ Executions(o)[k].executor = executors[o][kind].v
                              /\ Count(o, "execute", Executions(o)[k].step) = 1
                    /\ \A k \in 1..Len(Appends(o)) :
                          StepWithId(o, Appends(o)[k].step).kind = kind =>
                              Count(o, "execute", Appends(o)[k].step) = 1

\* The supplied registry held a cached singleton for llm and the mapping an
\* executor for llm: both llm steps of the run went to the mapped executor.
C10_Witness ==
    /\ pc[1] = "returned"
    /\ argFactory[1] = Some(1)
    /\ containers0[1] = Singletons
    /\ containers0[1].singletons[Key("llm")] = Some(Executor("Scripted", 4))
    /\ executors[1]["llm"] = Some(Recording(1))
    /\ Len(Executions(1)) = 2
    /\ \A k \in 1..2 :
          /\ spec[1].steps[k].kind = "llm"
          /\ Executions(1)[k].executor = Recording(1)

\* ------------------------------------------------------------------ the registry and its callers
\* A caller o that holds a registry works on the container executor_factory[o]
\* refers to: a client of the registry ("client"), or whoever built
\* orchestrator o and uses its public attribute executor_factory ("ready").
Registry(o) == containers[executor_factory[o]]

HoldsRegistry(o) == pc[o] \in {"client", "ready"}

OpsDone == Len(events[1]) + Len(events[2])

\* How a key is registered: by a provider that is a factory or a singleton,
\* as an instance (a value without provider), or not at all.
Strategy(c, key) ==
    IF c.providers[key].some
    THEN (IF c.providers[key].v.singleton THEN "singleton" ELSE "factory")
    ELSE IF c.singletons[key].some THEN "instance" ELSE "none"

\* The callable a caller registers with its n-th operation; the objects it
\* builds carry its name as their class.
Builder(n) == "Builder" \o ToString(n)

Registration(strategy, key, override, given, r) ==
    [ev |-> "register", strategy |-> strategy, key |-> key, override |-> override,
     given |-> given, before |-> nextOid, raised |-> r.raised]

Resolution(c, key, r) ==
    [ev |-> "resolve", key |-> key, strategy |-> Strategy(c, key), raised |-> r.raised,
     value |-> r.value, built |-> r.built]

\* ExecutorFactory.register_factory(kind, builder, override=...)
FactoryRegisterFactory(o) ==
    /\ HoldsRegistry(o)
    /\ OpsDone < MaxOps
    /\ \E kind \in RunKinds, override \in BOOLEAN :
          LET builder == Builder(OpsDone + 1)
              r == RegisterFactory(Registry(o), Key(kind), builder, override)
          IN  /\ containers' = [containers EXCEPT ![executor_factory[o]] = r.c]
              /\ Log(o, Registration("factory", Key(kind), override, builder, r))
    /\ UNCHANGED <<inputs, assembly, frame, executor_factory, nextOid, memory, pc, idx, request, executor,
                   responses, raised, script>>

\* ExecutorFactory.register_singleton(kind, builder, override=...)
FactoryRegisterSingleton(o) ==
    /\ HoldsRegistry(o)
    /\ OpsDone < MaxOps
    /\ \E kind \in RunKinds, override \in BOOLEAN :
          LET builder == Builder(OpsDone + 1)
              r == RegisterSingleton(Registry(o), Key(kind), builder, override)
          IN  /\ containers' = [containers EXCEPT ![executor_factory[o]] = r.c]
              /\ Log(o, Registration("singleton", Key(kind), override, builder, r))
    /\ UNCHANGED <<inputs, assembly, frame, executor_factory, nextOid, memory, pc, idx, request, executor,
                   responses, raised, script>>

\* ExecutorFactory.register_instance(kind, executor, override=...), the executor
\* being an object the caller has just made.
FactoryRegisterInstance(o) ==
    /\ HoldsRegistry(o)
    /\ OpsDone < MaxOps
    /\ \E kind \in RunKinds, override \in BOOLEAN :
          LET instance == Executor("Scripted", nextOid)
              r == RegisterInstance(Registry(o), Key(kind), instance, override)
          IN  /\ containers' = [containers EXCEPT ![executor_factory[o]] = r.c]
              /\ Log(o, Registration("instance", Key(kind), override, instance, r))
    /\ nextOid' = nextOid + 1
    /\ UNCHANGED <<inputs, assembly, frame, executor_factory, memory, pc, idx, request, executor,
                   responses, raised, script>>

\* ServiceContainer.resolve(key), on factory.container
ContainerResolve(o) ==
    /\ HoldsRegistry(o)
    /\ OpsDone < MaxOps
    /\ \E kind \in RunKinds :
          LET r == Resolve(Registry(o), Key(kind), nextOid)
          IN  /\ containers' = [containers EXCEPT ![executor_factory[o]] = r.c]
              /\ nextOid' = IF r.built THEN nextOid + 1 ELSE nextOid
              /\ Log(o, Resolution(Registry(o), Key(kind), r))
    /\ UNCHANGED <<inputs, assembly, frame, executor_factory, memory, pc, idx, request, executor,
                   responses, raised, script>>

\* ExecutorFactory.create(kind)
FactoryCreate(o) ==
    /\ HoldsRegistry(o)
    /\ OpsDone < MaxOps
    /\ \E kind \in RunKinds :
          LET r == Create(Registry(o), kind, nextOid)
          IN  /\ containers' = [containers EXCEPT ![executor_factory[o]] = r.c]
              /\ nextOid' = IF r.built THEN nextOid + 1 ELSE nextOid
              /\ Log(o, [Resolution(Registry(o), Key(kind), r) EXCEPT !.ev = "create"])
    /\ UNCHANGED <<inputs, assembly, frame, executor_factory, memory, pc, idx, request, executor,
                   responses, raised, script>>

\* ExecutorFactory.is_registered(kind)
FactoryIsRegistered(o) ==
    /\ HoldsRegistry(o)
    /\ OpsDone < MaxOps
    /\ \E kind \in RunKinds :
          Log(o, [ev |-> "is_registered", key |-> Key(kind),
                  value |-> IsRegistered(Registry(o), Key(kind))])
    /\ UNCHANGED <<inputs, assembly, frame, executor_factory, containers, nextOid, memory, pc, idx,
                   request, executor, responses, raised, script>>

\* ServiceContainer.clear_singletons(), on factory.container
ContainerClearSingletons(o) ==
    /\ HoldsRegistry(o)
    /\ OpsDone < MaxOps
    /\ containers' = [containers EXCEPT ![executor_factory[o]] = ClearSingletons(Registry(o))]
    /\ Log(o, [ev |-> "clear"])
    /\ UNCHANGED <<inputs, assembly, frame, executor_factory, nextOid, memory, pc, idx, request, executor,
                   responses, raised, script>>

\* No orchestrator is built: no workflow, no memory file, no run.
NoOrchestrators ==
    /\ spec = [o \in Orchs |-> [steps |-> <<>>]]
    /\ observer = [o \in Orchs |-> None]
    /\ executors = [o \in Orchs |-> NoExecutors]
    /\ argFactory = [o \in Orchs |-> None]
    /\ memory0 = [o \in Orchs |-> [exists |-> FALSE, text |-> <<>>]]
    /\ memory = memory0
    /\ nextOid = 10
    /\ idx = [o \in Orchs |-> 0]
    /\ request = [o \in Orchs |-> None]
    /\ executor = [o \in Orchs |-> None]
    /\ responses = [o \in Orchs |-> <<>>]
    /\ raised = [o \in Orchs |-> None]
    /\ script = {}
    /\ events = [o \in Orchs |-> <<>>]
    /\ frame = [o \in Orchs |-> None]

\* One client and one registry: any of the registries above, or the default one.
InitRegistry ==
    /\ NoOrchestrators
    /\ NoBuilder
    /\ \E c \in SuppliedFactories \cup {DefaultFactory} : containers = <<c>>
    /\ containers0 = containers
    /\ executor_factory = [o \in Orchs |-> IF o = 1 THEN 1 ELSE 0]
    /\ pc = [o \in Orchs |-> IF o = 1 THEN "client" ELSE "unused"]

NextRegistry ==
    \/ FactoryRegisterFactory(1)
    \/ FactoryRegisterSingleton(1)
    \/ FactoryRegisterInstance(1)
    \/ ContainerResolve(1)
    \/ FactoryCreate(1)
    \/ FactoryIsRegistered(1)
    \/ ContainerClearSingletons(1)

SpecRegistry == InitRegistry /\ [][NextRegistry]_vars

\* ------------------------------------------------------------------ C11
\* C11: __init__ leaves an executor registered for the kind llm, whatever
\* registry and mapping it was given, and it stays registered during the run.
\* A mapped llm executor is what is registered; otherwise what the registry
\* held for llm is kept as it was; and when it held nothing, the stand-in
\* LLMExecutor is registered (as a singleton).
C11_LLMAlwaysRegistered ==
    /\ [](\A o \in Orchs :
             pc[o] \notin {"new", "unused"} => IsRegistered(Registry(o), Key("llm")))
    /\ [][\A o \in Orchs :
             (pc[o] = "new" /\ pc'[o] = "ready") =>
                 LET base == IF argFactory[o].some THEN containers[argFactory[o].v]
                             ELSE DefaultFactory
                     c == containers'[executor_factory'[o]]
                     llm == Key("llm")
                 IN  /\ IsRegistered(c, llm)
                     /\ executors[o]["llm"].some =>
                           /\ c.singletons[llm] = executors[o]["llm"]
                           /\ ~c.providers[llm].some
                     /\ (~executors[o]["llm"].some /\ IsRegistered(base, llm)) =>
                           /\ c.providers[llm] = base.providers[llm]
                           /\ c.singletons[llm] = base.singletons[llm]
                     /\ (~executors[o]["llm"].some /\ ~IsRegistered(base, llm)) =>
                           /\ c.providers[llm] = Some(Provider("LLMExecutor", TRUE))
                           /\ ~c.singletons[llm].some
                           /\ Resolve(c, llm, nextOid).value.v.cls = "LLMExecutor"]_vars

\* A supplied registry that held an instance for shell and nothing for llm,
\* and no mapping: after __init__ llm resolves to the stand-in, shell as before.
C11_Witness ==
    /\ pc[1] = "ready"
    /\ argFactory[1] = Some(1)
    /\ containers0[1] = ShellInstance
    /\ executors[1] = NoExecutors
    /\ Strategy(Registry(1), Key("llm")) = "singleton"
    /\ Registry(1).providers[Key("llm")].v.factory = "LLMExecutor"
    /\ Registry(1).singletons[Key("shell")] = Some(Recording(3))

\* ------------------------------------------------------------------ what a caller did to a registry
\* Caller o has just completed an operation; Done(o) is its record.
Did(o) == Len(events'[o]) = Len(events[o]) + 1

Done(o) == events'[o][Len(events'[o])]

IsRegistration(e) == e.ev = "register"

IsResolution(e) == e.ev \in {"resolve", "create"}

\* The events of caller o from i to j (exclusive) left the registration of
\* key alone: no successful registration of key; and no clear_singletons.
Kept(o, i, j, key) ==
    \A m \in (i + 1)..(j - 1) :
        ~(IsRegistration(events[o][m]) /\ events[o][m].key = key /\ ~events[o][m].raised.some)

NoClear(o, i, j) == \A m \in (i + 1)..(j - 1) : events[o][m].ev # "clear"

\* j is the first resolution of key after i.
NextResolution(o, i, j, key) ==
    /\ i < j
    /\ IsResolution(events[o][j])
    /\ events[o][j].key = key
    /\ \A m \in (i + 1)..(j - 1) : ~(IsResolution(events[o][m]) /\ events[o][m].key = key)

\* ------------------------------------------------------------------ C12
\* C12: a registration without override of a key that is registered, by
\* whichever of the three operations and however it was registered, raises
\* "Service '<key>' is already registered" and changes nothing in the registry.
C12_DuplicateRegistrationFails ==
    [][\A o \in Orchs :
          (/\ Did(o)
           /\ IsRegistration(Done(o))
           /\ ~Done(o).override
           /\ IsRegistered(Registry(o), Done(o).key))
              => /\ Done(o).raised = Some(AlreadyRegistered(Done(o).key))
                 /\ containers' = containers]_vars

\* Three registrations without override of a key that held a cached
\* singleton, one by each operation: all three failed.
C12_Witness ==
    /\ containers0[1] = Singletons
    /\ Len(events[1]) = 3
    /\ \A i \in 1..3 :
          /\ IsRegistration(events[1][i])
          /\ events[1][i].key = Key("llm")
          /\ events[1][i].raised = Some(AlreadyRegistered(Key("llm")))
    /\ {events[1][i].strategy : i \in 1..3} = {"factory", "singleton", "instance"}
    /\ containers = containers0

C14_SingletonInvokedOnce ==
    \A o \in Orchs :
        \A j \in 1..Len(events[o]) :
            LET r == events[o][j]
            IN  (IsResolution(r) /\ r.strategy = "singleton") =>
                    /\ ~r.raised.some
                    /\ \A i \in 1..(j - 1) :
                          (/\ IsResolution(events[o][i])
                           /\ events[o][i].key = r.key
                           /\ events[o][i].strategy = "singleton"
                           /\ Kept(o, i, j, r.key)
                           /\ NoClear(o, i, j))
                              => r.value = events[o][i].value /\ ~r.built
                    /\ (Kept(o, 0, j, r.key) /\ NoClear(o, 0, j) /\ NextResolution(o, 0, j, r.key))
                          => (r.built <=> ~containers0[executor_factory[o]].singletons[r.key].some)

\* Three resolutions of a singleton that had not been resolved: one
\* invocation, three times the same object.
C14_Witness ==
    /\ containers0[1] = Singletons
    /\ Len(events[1]) = 3
    /\ \A i \in 1..3 :
          /\ IsResolution(events[1][i])
          /\ events[1][i].key = Key("shell")
          /\ events[1][i].value = events[1][1].value
    /\ events[1][1].built
    /\ ~events[1][2].built
    /\ ~events[1][3].built
    /\ nextOid = 11

\* ------------------------------------------------------------------ C15
\* C15: every resolution of a key held by a factory provider invokes the
\* callable and returns the object it built, a different one each time, and
\* nothing is cached for the key.
C15_FactoryInvokedEachTime ==
    \A o \in Orchs :
        /\ \A j \in 1..Len(events[o]) :
              LET r == events[o][j]
              IN  (IsResolution(r) /\ r.strategy = "factory") =>
                      /\ ~r.raised.some
                      /\ r.built
                      /\ \A i \in 1..(j - 1) :
                            IsResolution(events[o][i]) => events[o][i].value # r.value
        /\ HoldsRegistry(o) =>
              \A key \in Keys :
                  Strategy(Registry(o), key) = "factory" => ~Registry(o).singletons[key].some

\* Three resolutions of a factory: three invocations, three objects.
C15_Witness ==
    /\ containers0[1] = Factories
    /\ Len(events[1]) = 3
    /\ \A i \in 1..3 :
          /\ IsResolution(events[1][i])
          /\ events[1][i].key = Key("llm")
          /\ events[1][i].built
    /\ Cardinality({events[1][i].value : i \in 1..3}) = 3
    /\ nextOid = 13
    /\ containers = containers0

C17_ClearKeepsRegistrations ==
    [][\A o \in Orchs :
          (Did(o) /\ Done(o).ev = "clear") =>
              \A key \in Keys :
                  LET before == Registry(o)
                      after == containers'[executor_factory[o]]
                  IN  /\ IsRegistered(after, key) <=> IsRegistered(before, key)
                      /\ ~Resolve(before, key, nextOid).raised.some
                            => ~Resolve(after, key, nextOid).raised.some]_vars

\* ------------------------------------------------------------------ C18
\* C18: resolve of a key that is not registered raises "Service '<key>' has
\* not been registered", create of its kind raises "No executor registered
\* for step kind '<kind>'", and neither changes the registry or builds
\* anything; a key that is registered resolves without error; is_registered
\* tells whether the key is registered and changes nothing.
C18_UnregisteredResolveFails ==
    [][\A o \in Orchs :
          Did(o) =>
              LET e == Done(o)
              IN  /\ (IsResolution(e) /\ ~IsRegistered(Registry(o), e.key)) =>
                        /\ e.ev = "resolve" => e.raised = Some(NotRegistered(e.key))
                        /\ e.ev = "create" =>
                              \E kind \in StepKind :
                                  Key(kind) = e.key /\ e.raised = Some(NoExecutorFor(kind))
                        /\ ~e.built
                        /\ containers' = containers
                        /\ nextOid' = nextOid
                  /\ (IsResolution(e) /\ IsRegistered(Registry(o), e.key)) =>
                        ~e.raised.some /\ e.value.some
                  /\ e.ev = "is_registered" =>
                        /\ e.value = IsRegistered(Registry(o), e.key)
                        /\ containers' = containers
                        /\ nextOid' = nextOid]_vars

\* On the default registry, for the kind shell: is_registered says no,
\* resolve raises the LookupError and create the ValueError.
C18_Witness ==
    /\ containers0[1] = DefaultFactory
    /\ Len(events[1]) = 3
    /\ events[1][1] = [ev |-> "is_registered", key |-> Key("shell"), value |-> FALSE]
    /\ events[1][2].ev = "resolve"
    /\ events[1][2].raised = Some(NotRegistered(Key("shell")))
    /\ events[1][3].ev = "create"
    /\ events[1][3].raised = Some(NoExecutorFor("shell"))
    /\ containers = containers0

\* ------------------------------------------------------------------ threads in resolve
\* Two threads that share one registry and call ServiceContainer.resolve, each
\* once.  A thread may be suspended between any two statements of resolve;
\* frame[t] holds the locals of its call.
Frame(key, provider, instance) == [key |-> key, provider |-> provider, instance |-> instance]

InResolve(t) == pc[t] \in {"resolve_check", "resolve_get", "resolve_call", "resolve_store"}

\* resolve(key) is called.
ResolveEnter(t) ==
    /\ pc[t] = "thread"
    /\ \E kind \in RunKinds : frame' = [frame EXCEPT ![t] = Some(Frame(Key(kind), None, None))]
    /\ pc' = [pc EXCEPT ![t] = "resolve_check"]
    /\ UNCHANGED <<inputs, assembly, executor_factory, containers, nextOid, memory, idx, request, executor,
                   responses, raised, script, events>>

\* ResolveCheck under a lock that a thread holds from the check to its return.
ResolveCheck_Locked(t) ==
    /\ pc[t] = "resolve_check"
    /\ \A u \in Orchs \ {t} : pc[u] \notin {"resolve_get", "resolve_call", "resolve_store"}
    /\ LET key == frame[t].v.key
           cached == Registry(t).singletons[key]
       IN  IF cached.some
           THEN /\ executor' = [executor EXCEPT ![t] = cached]
                /\ pc' = [pc EXCEPT ![t] = "resolved"]
                /\ Log(t, Resolution(Registry(t), key,
                                     [raised |-> None, value |-> cached, built |-> FALSE]))
           ELSE /\ pc' = [pc EXCEPT ![t] = "resolve_get"]
                /\ UNCHANGED <<executor, events>>
    /\ UNCHANGED <<inputs, assembly, frame, executor_factory, containers, nextOid, memory, idx, request,
                   responses, raised, script>>

\* if key in self._singletons: return self._singletons[key]
ResolveCheck(t) ==
    /\ pc[t] = "resolve_check"
    /\ LET key == frame[t].v.key
           cached == Registry(t).singletons[key]
       IN  IF cached.some
           THEN /\ executor' = [executor EXCEPT ![t] = cached]
                /\ pc' = [pc EXCEPT ![t] = "resolved"]
                /\ Log(t, Resolution(Registry(t), key,
                                     [raised |-> None, value |-> cached, built |-> FALSE]))
           ELSE /\ pc' = [pc EXCEPT ![t] = "resolve_get"]
                /\ UNCHANGED <<executor, events>>
    /\ UNCHANGED <<inputs, assembly, frame, executor_factory, containers, nextOid, memory, idx, request,
                   responses, raised, script>>

\* provider = self._providers.get(key); if provider is None: raise LookupError
ResolveGet(t) ==
    /\ pc[t] = "resolve_get"
    /\ LET key == frame[t].v.key
           provider == Registry(t).providers[key]
       IN  IF ~provider.some
           THEN /\ raised' = [raised EXCEPT ![t] = Some(NotRegistered(key))]
                /\ pc' = [pc EXCEPT ![t] = "raised"]
                /\ Log(t, Resolution(Registry(t), key,
                                     [raised |-> Some(NotRegistered(key)), value |-> None,
                                      built |-> FALSE]))
                /\ UNCHANGED frame
           ELSE /\ frame' = [frame EXCEPT ![t] = Some(Frame(key, provider, None))]
                /\ pc' = [pc EXCEPT ![t] = "resolve_call"]
                /\ UNCHANGED <<raised, events>>
    /\ UNCHANGED <<inputs, assembly, executor_factory, containers, nextOid, memory, idx, request, executor,
                   responses, script>>

\* instance = provider.factory(self)
ResolveCall(t) ==
    /\ pc[t] = "resolve_call"
    /\ LET f == frame[t].v
           instance == Executor(f.provider.v.factory, nextOid)
       IN  /\ frame' = [frame EXCEPT ![t] = Some(Frame(f.key, f.provider, Some(instance)))]
           /\ Log(t, [ev |-> "invoke", key |-> f.key, value |-> Some(instance)])
    /\ nextOid' = nextOid + 1
    /\ pc' = [pc EXCEPT ![t] = "resolve_store"]
    /\ UNCHANGED <<inputs, assembly, executor_factory, containers, memory, idx, request, executor,
                   responses, raised, script>>

\* if provider.singleton: self._singletons[key] = instance; return instance
ResolveStore(t) ==
    /\ pc[t] = "resolve_store"
    /\ LET f == frame[t].v
           ref == executor_factory[t]
       IN  /\ containers' = IF f.provider.v.singleton
                            THEN [containers EXCEPT ![ref].singletons[f.key] = f.instance]
                            ELSE containers
           /\ executor' = [executor EXCEPT ![t] = f.instance]
           /\ Log(t, Resolution(Registry(t), f.key,
                                [raised |-> None, value |-> f.instance, built |-> TRUE]))
    /\ pc' = [pc EXCEPT ![t] = "resolved"]
    /\ UNCHANGED <<inputs, assembly, frame, executor_factory, nextOid, memory, idx, request, responses,
                   raised, script>>

ThreadStep(t) ==
    \/ ResolveEnter(t)
    \/ ResolveCheck(t)
    \/ ResolveGet(t)
    \/ ResolveCall(t)
    \/ ResolveStore(t)

\* Both threads hold the same registry, any of those above.
InitThreads ==
    /\ NoOrchestrators
    /\ NoBuilder
    /\ \E c \in SuppliedFactories \cup {DefaultFactory} : containers = <<c>>
    /\ containers0 = containers
    /\ executor_factory = [t \in Orchs |-> 1]
    /\ pc = [t \in Orchs |-> "thread"]

NextThreads == \E t \in Orchs : ThreadStep(t)

SpecThreads == InitThreads /\ [][NextThreads]_vars

\* ------------------------------------------------------------------ C19
IsInvoke(e) == e.ev = "invoke"

\* The invocations of the callable of key that thread t made.
Invocations(t, key) ==
    Cardinality({i \in 1..Len(events[t]) : IsInvoke(events[t][i]) /\ events[t][i].key = key})

\* Thread t found nothing cached at its check and went on to the provider.
Missed(t) == frame[t].some /\ frame[t].v.provider.some

\* C19: nothing holds a thread back in resolve: a thread that has not
\* returned can always take its next step, wherever the other thread is.  So
\* a thread that found nothing cached invokes the callable itself and returns
\* the object of its own invocation, whatever the other thread cached
\* meanwhile; and two threads that both found nothing cached for a singleton
\* key invoke the callable twice and return two different objects, of which
\* the registry keeps one.
C19_UnlockedFirstResolution ==
    /\ \A t \in Orchs : (pc[t] = "thread" \/ InResolve(t)) => ENABLED ThreadStep(t)
    /\ \A t \in Orchs :
          (pc[t] = "resolved" /\ Missed(t)) =>
              /\ Invocations(t, frame[t].v.key) = 1
              /\ executor[t] = frame[t].v.instance
              /\ \E i \in 1..Len(events[t]) :
                    IsInvoke(events[t][i]) /\ events[t][i].value = executor[t]
    /\ (/\ pc[1] = "resolved" /\ pc[2] = "resolved"
        /\ Missed(1) /\ Missed(2)
        /\ frame[1].v.key = frame[2].v.key)
          => /\ executor[1] # executor[2]
             /\ Invocations(1, frame[1].v.key) + Invocations(2, frame[1].v.key) = 2
             /\ frame[1].v.provider.v.singleton =>
                   Registry(1).singletons[frame[1].v.key] \in {executor[1], executor[2]}

\* The race: both threads resolved the same singleton key for the first
\* time, the callable was invoked twice and they hold different objects.
C19_Witness ==
    /\ pc[1] = "resolved" /\ pc[2] = "resolved"
    /\ frame[1].v.key = Key("shell")
    /\ frame[2].v.key = Key("shell")
    /\ containers0[1] = Singletons
    /\ containers0[1].providers[Key("shell")].v.singleton
    /\ ~containers0[1].singletons[Key("shell")].some
    /\ Invocations(1, Key("shell")) = 1
    /\ Invocations(2, Key("shell")) = 1
    /\ executor[1] # executor[2]
    /\ executor[1].some /\ executor[2].some

\* ------------------------------------------------------------------ independent orchestrators
\* Two orchestrators, each built without an executor_factory (with any of the
\* executor mappings), at any moment.  Registrations and clear_singletons are
\* made through the first one's executor_factory, resolutions through both.
InitIndependent ==
    /\ spec = [o \in Orchs |-> [steps |-> <<>>]]
    /\ observer = [o \in Orchs |-> None]
    /\ \E m \in ExecutorMaps : executors = [o \in Orchs |-> m]
    /\ argFactory = [o \in Orchs |-> None]
    /\ containers = <<>>
    /\ memory0 = [o \in Orchs |-> [exists |-> FALSE, text |-> <<>>]]
    /\ Locals(Orchs)

NextIndependent ==
    \/ \E o \in Orchs : Construct(o)
    \/ FactoryRegisterFactory(1)
    \/ FactoryRegisterSingleton(1)
    \/ FactoryRegisterInstance(1)
    \/ ContainerClearSingletons(1)
    \/ \E o \in Orchs : ContainerResolve(o)

SpecIndependent == InitIndependent /\ [][NextIndependent]_vars

\* ------------------------------------------------------------------ C20
\* The registry an orchestrator gets from __init__ when it is given no factory.
OwnRegistry(o) == OrchestratorInit(<<>>, None, executors[o]).heap[1]

Built(o) == pc[o] = "ready"

\* C20: two orchestrators built without a factory hold two registries; what
\* is registered, overridden, resolved or cleared through one leaves the
\* registry of the other, and so what the other resolves for every kind, as
\* it was; and an orchestrator built later starts from the registry its own
\* arguments give, whatever was done through the other before.
C20_NoLeakBetweenOrchestrators ==
    /\ []((Built(1) /\ Built(2)) => executor_factory[1] # executor_factory[2])
    /\ [][\A o \in Orchs : \A u \in Orchs \ {o} :
             /\ (Did(o) /\ Built(u)) =>
                   /\ containers'[executor_factory[u]] = Registry(u)
                   /\ \A kind \in StepKind :
                         Create(containers'[executor_factory[u]], kind, 0)
                             = Create(Registry(u), kind, 0)
             /\ (pc[o] = "new" /\ pc'[o] = "ready") =>
                   /\ containers'[executor_factory'[o]] = OwnRegistry(o)
                   /\ Built(u) => containers'[executor_factory[u]] = Registry(u)]_vars

\* Through the first orchestrator llm was overridden, resolved and the cache
\* cleared; the second, built meanwhile or afterwards, holds its own registry unchanged.
C20_Witness ==
    /\ Built(1) /\ Built(2)
    /\ Len(events[1]) = 3
    /\ IsRegistration(events[1][1])
    /\ events[1][1].override
    /\ events[1][1].key = Key("llm")
    /\ IsResolution(events[1][2])
    /\ events[1][3].ev = "clear"
    /\ Registry(2) = OwnRegistry(2)
    /\ Registry(1) # Registry(2)
    /\ Create(Registry(2), "llm", 0).value.v.cls = "LLMExecutor"

\* ------------------------------------------------------------------ C21
\* C21: ExecutorFactory.default() registers the kind llm and nothing else.
\* Of the keys of all kinds only that of llm is registered; on a registry as
\* default() returns it the first call tells so: is_registered answers TRUE
\* for llm and FALSE for shell, resolve and create of llm build the stand-in
\* LLMExecutor (once: it is a singleton), those of shell raise, and a
\* registration without override is refused for llm only.
C21_DefaultSeedsLLMOnly ==
    containers0[1] = DefaultFactory =>
        /\ {key \in Keys : IsRegistered(containers0[1], key)} = {Key("llm")}
        /\ Strategy(containers0[1], Key("llm")) = "singleton"
        /\ \A kind \in {"shell", "python"} : Create(containers0[1], kind, nextOid).raised.some
        /\ Len(events[1]) >= 1 =>
              LET e == events[1][1]
              IN  /\ e.ev = "is_registered" => e.value = (e.key = Key("llm"))
                  /\ IsResolution(e) =>
                        IF e.key = Key("llm")
                        THEN /\ ~e.raised.some
                             /\ e.built
                             /\ e.value.v.cls = "LLMExecutor"
                        ELSE e.raised.some /\ ~e.value.some
                  /\ (IsRegistration(e) /\ ~e.override) =>
                        (e.raised.some <=> e.key = Key("llm"))

\* The default registry was asked for both kinds and then made the stand-in.
C21_Witness ==
    /\ containers0[1] = DefaultFactory
    /\ Len(events[1]) = 3
    /\ events[1][1] = [ev |-> "is_registered", key |-> Key("llm"), value |-> TRUE]
    /\ events[1][2] = [ev |-> "is_registered", key |-> Key("shell"), value |-> FALSE]
    /\ events[1][3].ev = "create"
    /\ events[1][3].key = Key("llm")
    /\ events[1][3].value.some
    /\ events[1][3].value.v.cls = "LLMExecutor"

\* ------------------------------------------------------------------ the builder and its caller
\* One caller works on one WorkflowBuilder through its public methods; what a
\* call was given and how it ended is logged in events[1].  compile() hands
\* out a new WorkflowSpec, kept in workflows.
TaskIds == {"t1", "t2"}

\* The file and text a task is registered with: neither, both empty, a file, a text.
TaskSources ==
    {<<None, None>>, <<Some(<<>>), Some(<<>>)>>, <<Some(<<"brief.md">>), None>>,
     <<None, Some(<<"Summarise the notes.">>)>>}

\* The goals and memory paths set by the caller; the empty string is one of each.
Goals == {<<"Ship the release.">>, <<>>}

Paths == {<<"notes/memory.md">>, <<>>}

\* The kind and uses of the steps added.
StepArgs == {<<"llm", <<>>>>, <<"llm", <<"t1">>>>, <<"shell", <<"t2">>>>, <<"shell", <<"t1", "t2">>>>}

StepName == <<"draft">>

\* A builder that was given a goal, a memory path, the task t2 and a step using it.
Prepared ==
    LET b1 == Memory(WithGoal(WorkflowBuilder, <<"Write the report.">>), <<"memory.md">>)
        b2 == RegisterTask(b1, "t2", Some(<<"outline.md">>), None).b
    IN  AddStep(b2, StepName, "llm", <<"t2">>).b

Builders == {WorkflowBuilder, Prepared}

CallsBuilder == pc[1] = "builder" /\ OpsDone < MaxOps

\* builder.with_goal(goal)
BuilderWithGoal ==
    /\ CallsBuilder
    /\ \E goal \in Goals :
          /\ workflow_builder' = WithGoal(workflow_builder, goal)
          /\ Log(1, [ev |-> "with_goal", goal |-> goal])
    /\ UNCHANGED <<inputs, frame, workflows, executor_factory, containers, nextOid, memory, pc, idx,
                   request, executor, responses, raised, script>>

\* builder.memory(path)
BuilderMemory ==
    /\ CallsBuilder
    /\ \E path \in Paths :
          /\ workflow_builder' = Memory(workflow_builder, path)
          /\ Log(1, [ev |-> "memory", path |-> path])
    /\ UNCHANGED <<inputs, frame, workflows, executor_factory, containers, nextOid, memory, pc, idx,
                   request, executor, responses, raised, script>>

\* builder.register_task(task_id, file=..., text=...)
BuilderRegisterTask ==
    /\ CallsBuilder
    /\ \E task_id \in TaskIds, source \in TaskSources :
          LET r == RegisterTask(workflow_builder, task_id, source[1], source[2])
          IN  /\ workflow_builder' = r.b
              /\ Log(1, [ev |-> "register_task", task_id |-> task_id, file |-> source[1],
                         text |-> source[2], raised |-> r.raised])
    /\ UNCHANGED <<inputs, frame, workflows, executor_factory, containers, nextOid, memory, pc, idx,
                   request, executor, responses, raised, script>>

\* add_step on a builder whose list of steps is shared with the compiled workflows.
BuilderAddStep_Aliased ==
    /\ CallsBuilder
    /\ \E args \in StepArgs :
          LET r == AddStep(workflow_builder, StepName, args[1], args[2])
          IN  /\ workflow_builder' = r.b
              /\ workflows' = [i \in 1..Len(workflows) |->
                                  [workflows[i] EXCEPT !.steps = r.b.steps]]
              /\ Log(1, [ev |-> "add_step", name |-> StepName, uses |-> args[2],
                         step_id |-> Len(workflow_builder.steps) + 1, raised |-> r.raised])
    /\ UNCHANGED <<inputs, frame, executor_factory, containers, nextOid, memory, pc, idx,
                   request, executor, responses, raised, script>>

\* builder.add_step(name, kind=..., uses=...); step_id is the id the call computes
\* before it looks at uses.
BuilderAddStep ==
    /\ CallsBuilder
    /\ \E args \in StepArgs :
          LET r == AddStep(workflow_builder, StepName, args[1], args[2])
          IN  /\ workflow_builder' = r.b
              /\ Log(1, [ev |-> "add_step", name |-> StepName, uses |-> args[2],
                         step_id |-> Len(workflow_builder.steps) + 1, raised |-> r.raised])
    /\ UNCHANGED <<inputs, frame, workflows, executor_factory, containers, nextOid, memory, pc, idx,
                   request, executor, responses, raised, script>>

\* compile that hands out the builder's steps and starts the list anew.
BuilderCompile_Draining ==
    /\ CallsBuilder
    /\ LET r == Compile(workflow_builder)
       IN  /\ workflows' = IF r.raised.some THEN workflows ELSE Append(workflows, r.value.v)
           /\ workflow_builder' = IF r.raised.some THEN workflow_builder
                                   ELSE [workflow_builder EXCEPT !.steps = <<>>]
           /\ Log(1, [ev |-> "compile", raised |-> r.raised, value |-> r.value,
                      ref |-> IF r.raised.some THEN 0 ELSE Len(workflows) + 1])
    /\ UNCHANGED <<inputs, frame, executor_factory, containers, nextOid, memory, pc, idx,
                   request, executor, responses, raised, script>>

\* builder.compile(); ref is the place in workflows of the object returned.
BuilderCompile ==
    /\ CallsBuilder
    /\ LET r == Compile(workflow_builder)
       IN  /\ workflows' = IF r.raised.some THEN workflows ELSE Append(workflows, r.value.v)
           /\ Log(1, [ev |-> "compile", raised |-> r.raised, value |-> r.value,
                      ref |-> IF r.raised.some THEN 0 ELSE Len(workflows) + 1])
    /\ UNCHANGED <<inputs, frame, workflow_builder, executor_factory, containers, nextOid, memory, pc, idx,
                   request, executor, responses, raised, script>>

InitBuilder ==
    /\ NoOrchestrators
    /\ workflow_builder \in Builders
    /\ workflows = <<>>
    /\ containers = <<>>
    /\ containers0 = containers
    /\ executor_factory = [o \in Orchs |-> 0]
    /\ pc = [o \in Orchs |-> IF o = 1 THEN "builder" ELSE "unused"]

NextBuilder ==
    \/ BuilderWithGoal
    \/ BuilderMemory
    \/ BuilderRegisterTask
    \/ BuilderAddStep
    \/ BuilderCompile

SpecBuilder == InitBuilder /\ [][NextBuilder]_vars

\* The call just made on the builder, if one was made.
Called(ev) == Did(1) /\ Done(1).ev = ev

IsCall(i, ev) == events[1][i].ev = ev

\* The error add_step raises for the id task_id of uses.
UnknownTask(name, task_id) ==
    Exc("ValueError", <<"Step '">> \o name \o <<"' references unknown task '", task_id, "'.">>)

\* Some id of uses is not registered with the builder.
HasUnknown(uses) == \E i \in 1..Len(uses) : uses[i] \notin TaskIdsOf(workflow_builder.tasks)

\* ------------------------------------------------------------------ C22
\* C22: add_step whose uses name a task id that is not registered at the call
\* raises the error naming such an id and changes nothing: steps, tasks, goal
\* and memory path of the builder and the compiled workflows stay as they
\* were.  The next add_step that succeeds gets the id the failed call had
\* computed.
C22_UnknownUsesFails ==
    /\ [][Called("add_step") /\ HasUnknown(Done(1).uses) =>
             LET e == Done(1)
             IN  /\ \E i \in 1..Len(e.uses) :
                       /\ e.uses[i] \notin TaskIdsOf(workflow_builder.tasks)
                       /\ e.raised = Some(UnknownTask(e.name, e.uses[i]))
                 /\ workflow_builder' = workflow_builder
                 /\ workflows' = workflows]_vars
    /\ [](\A i, j \in 1..Len(events[1]) :
             (/\ i < j
              /\ IsCall(i, "add_step") /\ events[1][i].raised.some
              /\ IsCall(j, "add_step") /\ ~events[1][j].raised.some
              /\ \A m \in (i + 1)..(j - 1) :
                     IsCall(m, "add_step") => events[1][m].raised.some)
                 => events[1][j].step_id = events[1][i].step_id)
    /\ [][(Called("add_step") /\ ~Done(1).raised.some) =>
             /\ Len(workflow_builder'.steps) = Len(workflow_builder.steps) + 1
             /\ workflow_builder'.steps[Len(workflow_builder'.steps)].id = Done(1).step_id]_vars

\* On the prepared builder (one step, task t2): a step using t1 is refused, t1
\* is registered, and the same step is then added with the id 2.
C22_Witness ==
    /\ Len(events[1]) = 3
    /\ IsCall(1, "add_step")
    /\ events[1][1].raised = Some(UnknownTask(StepName, "t1"))
    /\ events[1][1].step_id = 2
    /\ IsCall(2, "register_task")
    /\ IsCall(3, "add_step")
    /\ ~events[1][3].raised.some
    /\ events[1][3].uses = <<"t1", "t2">>
    /\ Len(workflow_builder.steps) = 2
    /\ workflow_builder.steps[2].id = 2

\* ------------------------------------------------------------------ C23
\* C23: whatever calls were made on the builder, failed ones among them, its
\* steps carry the ids 1, 2, ..., n in the order they were added; an add_step
\* that succeeds appends one step, with the id 1 + the number of steps there
\* were, and no other call touches the steps.
C23_StepIdsGapless ==
    /\ [](\A i \in 1..Len(workflow_builder.steps) : workflow_builder.steps[i].id = i)
    /\ [][IF Called("add_step") /\ ~Done(1).raised.some
          THEN \E step \in {workflow_builder'.steps[Len(workflow_builder'.steps)]} :
                  /\ step.id = 1 + Len(workflow_builder.steps)
                  /\ workflow_builder'.steps = Append(workflow_builder.steps, step)
          ELSE workflow_builder'.steps = workflow_builder.steps]_vars

\* Three steps on the prepared builder, a refused add_step between the two new ones.
C23_Witness ==
    /\ Len(events[1]) = 3
    /\ IsCall(1, "add_step") /\ ~events[1][1].raised.some
    /\ IsCall(2, "add_step") /\ events[1][2].raised.some
    /\ IsCall(3, "add_step") /\ ~events[1][3].raised.some
    /\ Len(workflow_builder.steps) = 3
    /\ [i \in 1..3 |-> workflow_builder.steps[i].id] = <<1, 2, 3>>

\* ------------------------------------------------------------------ C24
\* C24: register_task under an id that is registered raises "Task '<id>' is
\* already registered." and leaves the builder as it was, the task first
\* registered included.  Under a free id (and with a source) it stores the
\* task after those registered before.  No call reorders or drops tasks, and
\* compile() hands them out in that order.
C24_DuplicateTaskFails ==
    /\ [][Called("register_task") =>
             LET e == Done(1)
                 b == workflow_builder
             IN  IF e.task_id \in TaskIdsOf(b.tasks)
                 THEN /\ e.raised = Some(Exc("ValueError",
                                            <<"Task '", e.task_id, "' is already registered.">>))
                      /\ workflow_builder' = b
                 ELSE ~e.raised.some =>
                          /\ Len(workflow_builder'.tasks) = Len(b.tasks) + 1
                          /\ workflow_builder' =
                                [b EXCEPT !.tasks =
                                    Append(@, [id |-> e.task_id,
                                               file |-> IF Truthy(e.file) THEN e.file ELSE None,
                                               text |-> e.text])]]_vars
    /\ [][IsPrefix(workflow_builder.tasks, workflow_builder'.tasks)]_vars
    /\ [][(Called("compile") /\ ~Done(1).raised.some) =>
             Done(1).value.v.tasks = workflow_builder.tasks]_vars

\* On the prepared builder (task t2 from outline.md): t1 is registered, t2 is
\* refused, and the compiled workflow lists t2 before t1, t2 still from outline.md.
C24_Witness ==
    /\ Len(events[1]) = 3
    /\ IsCall(1, "register_task") /\ events[1][1].task_id = "t1" /\ ~events[1][1].raised.some
    /\ IsCall(2, "register_task") /\ events[1][2].task_id = "t2" /\ events[1][2].raised.some
    /\ events[1][2].text = Some(<<"Summarise the notes.">>)
    /\ IsCall(3, "compile") /\ ~events[1][3].raised.some
    /\ Len(workflows) = 1
    /\ [i \in 1..2 |-> workflows[1].tasks[i].id] = <<"t2", "t1">>
    /\ workflows[1].tasks[1].file = Some(<<"outline.md">>)

\* ------------------------------------------------------------------ C25
\* The errors of compile().
GoalMissing == Exc("ValueError", <<"Workflow goal must be provided before compilation.">>)

MemoryMissing == Exc("ValueError", <<"Memory file must be configured before compilation.">>)

\* What a call of compile() does, no_goal and no_path telling whether the
\* builder's goal and memory path count as not given: it never changes the
\* builder; with the goal or the path missing it raises and hands out
\* nothing; otherwise it returns a new WorkflowSpec of the builder's goal,
\* memory path, tasks and steps, these in the builder's order.
CompileContract(no_goal, no_path) ==
    Called("compile") =>
        LET e == Done(1)
            b == workflow_builder
        IN  /\ workflow_builder' = b
            /\ IF no_goal \/ no_path
               THEN /\ e.raised = Some(IF no_goal THEN GoalMissing ELSE MemoryMissing)
                    /\ ~e.value.some
                    /\ workflows' = workflows
               ELSE /\ ~e.raised.some
                    /\ e.value = Some([goal |-> b.goal.v, memory_file |-> b.memory_file.v,
                                        tasks |-> b.tasks, steps |-> b.steps])
                    /\ workflows' = Append(workflows, e.value.v)

\* The goal and the memory path of the builder are those of the last
\* with_goal and memory calls: each setter overwrites its field and nothing
\* else, and no other call touches the two fields.
LastCallWins ==
    /\ Called("with_goal") =>
          workflow_builder' = [workflow_builder EXCEPT !.goal = Some(Done(1).goal)]
    /\ Called("memory") =>
          workflow_builder' = [workflow_builder EXCEPT !.memory_file = Some(Done(1).path)]
    /\ ~Called("with_goal") => workflow_builder'.goal = workflow_builder.goal
    /\ ~Called("memory") => workflow_builder'.memory_file = workflow_builder.memory_file

\* C25, as stated: compile() raises if the goal or the memory path is unset,
\* and returns the WorkflowSpec whenever both were set.
C25_CompileWhenBothSet ==
    [][/\ CompileContract(~workflow_builder.goal.some, ~workflow_builder.memory_file.some)
       /\ LastCallWins]_vars

\* C25, amended: compile() raises if the goal or the memory path is unset or
\* the empty string, without changing the builder; with both set and not
\* empty it returns a WorkflowSpec whose goal and memory_file are the values
\* of the last with_goal and memory calls and whose tasks and steps are the
\* builder's, in insertion order.
C25_CompileNeedsGoalAndPath ==
    [][/\ CompileContract(~Truthy(workflow_builder.goal), ~Truthy(workflow_builder.memory_file))
       /\ LastCallWins]_vars

\* The prepared builder compiles; its goal is then set to the empty string
\* and compile() raises the error of a missing goal.
C25_Witness ==
    /\ workflow_builder = WithGoal(Prepared, <<>>)
    /\ Len(events[1]) = 3
    /\ IsCall(1, "compile")
    /\ events[1][1].value = Some([goal |-> Prepared.goal.v, memory_file |-> <<"memory.md">>,
                                   tasks |-> Prepared.tasks, steps |-> Prepared.steps])
    /\ events[1][2] = [ev |-> "with_goal", goal |-> <<>>]
    /\ IsCall(3, "compile")
    /\ events[1][3].raised = Some(GoalMissing)
    /\ Len(workflows) = 1

\* ------------------------------------------------------------------ C26
\* C26: compile() leaves the builder as it found it, and two calls of
\* compile() with no other call between them end alike: both raise the same
\* error, or both return workflows of the same goal, memory path, tasks and
\* steps, tasks and steps in the same order.  The two workflows returned are
\* two objects.
C26_CompileIdempotent ==
    /\ [][Called("compile") => workflow_builder' = workflow_builder]_vars
    /\ [](\A i \in 1..(Len(events[1]) - 1) :
             (IsCall(i, "compile") /\ IsCall(i + 1, "compile")) =>
                 LET first == events[1][i]
                     second == events[1][i + 1]
                 IN  /\ second.raised = first.raised
                     /\ second.value = first.value
                     /\ first.value.some =>
                           /\ second.ref # first.ref
                           /\ workflows[second.ref] = workflows[first.ref]
                           /\ workflows[first.ref] = first.value.v)

\* A step is added to the prepared builder, which is then compiled twice.
C26_Witness ==
    /\ Len(events[1]) = 3
    /\ IsCall(1, "add_step") /\ ~events[1][1].raised.some
    /\ IsCall(2, "compile") /\ IsCall(3, "compile")
    /\ Len(workflows) = 2
    /\ workflows[1] = workflows[2]
    /\ Len(workflows[2].steps) = 2
    /\ workflow_builder.steps = workflows[2].steps

\* ------------------------------------------------------------------ C27
\* C27: a compiled workflow shares nothing with the builder: register_task,
\* add_step, with_goal and memory, made after compile(), leave every workflow
\* compiled before as it was returned, in goal, memory_file, tasks and steps.
C27_CompiledNotAliased ==
    /\ [][\A i \in 1..Len(workflows) : Len(workflows') >= i /\ workflows'[i] = workflows[i]]_vars
    /\ [](\A i \in 1..Len(events[1]) :
             (IsCall(i, "compile") /\ events[1][i].value.some) =>
                 workflows[events[1][i].ref] = events[1][i].value.v)

\* The prepared builder is compiled, then given another goal and another
\* step: the workflow still has the goal and the one step it had.
C27_Witness ==
    /\ Len(events[1]) = 3
    /\ IsCall(1, "compile")
    /\ IsCall(2, "with_goal") /\ events[1][2].goal = <<"Ship the release.">>
    /\ IsCall(3, "add_step") /\ ~events[1][3].raised.some
    /\ Len(workflows) = 1
    /\ workflows[1].goal = <<"Write the report.">>
    /\ Len(workflows[1].steps) = 1
    /\ Len(workflow_builder.steps) = 2
    /\ workflow_builder.goal = Some(<<"Ship the release.">>)

\* ------------------------------------------------------------------ C28
\* C28: in every workflow compile() returned, whatever calls were made on the
\* builder, each task id in the uses of each step is the id of a task of that
\* workflow.
C28_UsesAreTasks ==
    \A i \in 1..Len(workflows) :
        \A k \in 1..Len(workflows[i].steps) :
            \A u \in 1..Len(workflows[i].steps[k].uses) :
                workflows[i].steps[k].uses[u] \in TaskIdsOf(workflows[i].tasks)

\* On the prepared builder a step using t1 was refused, then t1 registered;
\* the workflow compiled has the one step, using t2, and both tasks.
C28_Witness ==
    /\ Len(events[1]) = 3
    /\ IsCall(1, "add_step") /\ events[1][1].raised.some
    /\ IsCall(2, "register_task") /\ ~events[1][2].raised.some
    /\ IsCall(3, "compile")
    /\ Len(workflows) = 1
    /\ Len(workflows[1].steps) = 1
    /\ workflows[1].steps[1].uses = <<"t2">>
    /\ TaskIdsOf(workflows[1].tasks) = {"t1", "t2"}

\* ------------------------------------------------------------------ C30
NoSource == Exc("ValueError", <<"TaskSpec requires a file or text source.">>)

\* The i-th call registered nothing for want of a source.
Sourceless(i) ==
    /\ IsCall(i, "register_task")
    /\ ~Truthy(events[1][i].file) /\ ~Truthy(events[1][i].text)
    /\ events[1][i].raised = Some(NoSource)

\* C30: a TaskSpec is made with a file or a text, with neither (None or the
\* empty string for both) its construction raises.  register_task with
\* neither raises and leaves the builder as it was, the id not registered if
\* it was not; a later register_task of that id with a source, the id not
\* registered meanwhile, succeeds.
C30_TaskNeedsSource ==
    /\ [](\A id \in TaskIds, source \in TaskSources :
             LET task == TaskSpec(id, source[1], source[2])
             IN  IF Truthy(source[1]) \/ Truthy(source[2])
                 THEN task.value = Some([id |-> id, file |-> source[1], text |-> source[2]])
                 ELSE task.raised = Some(NoSource) /\ ~task.value.some)
    /\ [][(Called("register_task") /\ ~Truthy(Done(1).file) /\ ~Truthy(Done(1).text)) =>
             /\ Done(1).raised.some
             /\ workflow_builder' = workflow_builder
             /\ Done(1).task_id \notin TaskIdsOf(workflow_builder.tasks) =>
                   /\ Done(1).raised = Some(NoSource)
                   /\ Done(1).task_id \notin TaskIdsOf(workflow_builder'.tasks)]_vars
    /\ [](\A i, j \in 1..Len(events[1]) :
             (/\ i < j
              /\ Sourceless(i)
              /\ IsCall(j, "register_task")
              /\ events[1][j].task_id = events[1][i].task_id
              /\ Truthy(events[1][j].file) \/ Truthy(events[1][j].text)
              /\ \A m \in (i + 1)..(j - 1) :
                     (IsCall(m, "register_task") /\ events[1][m].task_id = events[1][i].task_id)
                         => events[1][m].raised.some)
                 => ~events[1][j].raised.some)

\* t1 is refused without file and text, and with both empty, and is then
\* registered with a text.
C30_Witness ==
    /\ Len(events[1]) = 3
    /\ Sourceless(1) /\ events[1][1].task_id = "t1" /\ ~events[1][1].file.some
    /\ Sourceless(2) /\ events[1][2].task_id = "t1" /\ events[1][2].file = Some(<<>>)
    /\ IsCall(3, "register_task") /\ events[1][3].task_id = "t1" /\ ~events[1][3].raised.some
    /\ workflow_builder.tasks = <<[id |-> "t1", file |-> None, text |-> events[1][3].text]>>

\* ------------------------------------------------------------------ WorkflowSpec made directly
\* A caller constructs WorkflowSpec objects from lists of tasks and steps of
\* its own; those that were constructed are kept in workflows.
TaskLists ==
    LET brief == [id |-> "t1", file |-> Some(<<"brief.md">>), text |-> None]
        notes == [id |-> "t2", file |-> None, text |-> Some(<<"Summarise the notes.">>)]
        other == [id |-> "t1", file |-> None, text |-> Some(<<"Another brief.">>)]
    IN  {<<>>, <<notes, brief>>, <<brief, other>>, <<notes, brief, notes>>}

StepLists ==
    {<<>>,
     <<BuiltStep(2, StepName, "llm", <<>>), BuiltStep(1, StepName, "shell", <<"t1">>)>>,
     <<BuiltStep(1, StepName, "llm", <<>>), BuiltStep(1, <<"review">>, "llm", <<>>)>>}

\* WorkflowSpec(goal=..., memory_file=..., tasks=..., steps=...)
ConstructWorkflowSpec ==
    /\ pc[1] = "constructor"
    /\ OpsDone < MaxOps
    /\ \E tasks \in TaskLists, steps \in StepLists :
          LET r == WorkflowSpec(<<"Write the report.">>, <<"memory.md">>, tasks, steps)
          IN  /\ workflows' = IF r.raised.some THEN workflows ELSE Append(workflows, r.value.v)
              /\ Log(1, [ev |-> "WorkflowSpec", tasks |-> tasks, steps |-> steps,
                         raised |-> r.raised])
    /\ UNCHANGED <<inputs, frame, workflow_builder, executor_factory, containers,
                   nextOid, memory, pc, idx, request, executor, responses, raised, script>>

InitWorkflowSpec ==
    /\ NoOrchestrators
    /\ NoBuilder
    /\ containers = <<>>
    /\ containers0 = containers
    /\ executor_factory = [o \in Orchs |-> 0]
    /\ pc = [o \in Orchs |-> IF o = 1 THEN "constructor" ELSE "unused"]

NextWorkflowSpec == ConstructWorkflowSpec

SpecWorkflowSpec == InitWorkflowSpec /\ [][NextWorkflowSpec]_vars

\* ------------------------------------------------------------------ C29
\* The ids of the records of a list are pairwise distinct.
Distinct(list) == Cardinality({list[i].id : i \in 1..Len(list)}) = Len(list)

\* C29: WorkflowSpec cannot be constructed from tasks two of which have the
\* same id, nor from steps two of which have the same id: the construction
\* raises (the tasks are looked at first) and no object comes to exist.  So
\* the task ids and the step ids of every WorkflowSpec there is are pairwise
\* distinct.  Lists without repeated ids are accepted as given.
C29_UniqueIdentifiers ==
    /\ [](\A i \in 1..Len(workflows) :
             Distinct(workflows[i].tasks) /\ Distinct(workflows[i].steps))
    /\ [][Called("WorkflowSpec") =>
             LET e == Done(1)
             IN  IF ~Distinct(e.tasks)
                 THEN /\ e.raised = Some(Exc("ValueError",
                               <<"WorkflowSpec tasks must have unique identifiers.">>))
                      /\ workflows' = workflows
                 ELSE IF ~Distinct(e.steps)
                 THEN /\ e.raised = Some(Exc("ValueError",
                               <<"WorkflowSpec steps must have unique identifiers.">>))
                      /\ workflows' = workflows
                 ELSE /\ ~e.raised.some
                      /\ Len(workflows') = Len(workflows) + 1
                      /\ workflows'[Len(workflows')].tasks = e.tasks
                      /\ workflows'[Len(workflows')].steps = e.steps]_vars

\* Three constructions: repeated task ids, repeated step ids, and neither;
\* the last one alone made an object.
C29_Witness ==
    /\ Len(events[1]) = 3
    /\ IsCall(1, "WorkflowSpec") /\ ~Distinct(events[1][1].tasks) /\ events[1][1].raised.some
    /\ IsCall(2, "WorkflowSpec") /\ Distinct(events[1][2].tasks)
    /\ ~Distinct(events[1][2].steps) /\ events[1][2].raised.some
    /\ IsCall(3, "WorkflowSpec") /\ ~events[1][3].raised.some
    /\ Len(events[1][3].tasks) = 2 /\ Len(events[1][3].steps) = 2
    /\ Len(workflows) = 1

\* ------------------------------------------------------------------ runs with a reporting executor
\* One orchestrator whose llm steps go to an executor that reports in several
\* forms; the registry supplied has a placeholder for the kind shell.
InitSummary ==
    /\ \E w \in Workflows : spec = [o \in Orchs |-> [steps |-> IF o = 1 THEN w ELSE <<>>]]
    /\ \E ob \in {None, TheObserver} : observer = [o \in Orchs |-> IF o = 1 THEN ob ELSE None]
    /\ executors = [o \in Orchs |->
                       IF o = 1 THEN [NoExecutors EXCEPT !["llm"] = Some(Executor("Reporter", 7))]
                       ELSE NoExecutors]
    /\ argFactory = [o \in Orchs |-> IF o = 1 THEN Some(1) ELSE None]
    /\ containers = <<Factories>>
    /\ memory0 = [o \in Orchs |-> [exists |-> o = 1, text |-> IF o = 1 THEN TemplateMemory ELSE <<>>]]
    /\ Locals({1})

SpecSummary == InitSummary /\ [][Next]_vars

\* ------------------------------------------------------------------ C33
\* The line of the k-th append of run o, for the message given.
SummaryLine(o, k, message) ==
    <<"- ">> \o StepWithId(o, Appends(o)[k].step).name \o <<": ">> \o message

\* C33, as stated: for a step whose answer is not "fail" the line appended is
\* "- {step name}: {message}", the message being the entry "message" of the
\* result if the result has one, and else the rendering of the whole result.
C33_SummaryOfMessageIfPresent ==
    \A o \in Orchs :
        \A k \in 1..Len(Appends(o)) :
            LET r == Answered(o)[k].response
            IN  r.status # "fail" =>
                    Appends(o)[k].line =
                        SummaryLine(o, k, IF r.result.isdict /\ r.result.message.some
                                          THEN r.result.message.v ELSE r.result.str)

\* C33, amended: the message is the entry "message" of the result if the
\* result is a dict that has one and it is not empty, and else the rendering
\* of the whole result; the line, followed by a newline, is what the memory
\* file gains.
C33_SummaryOfMessage ==
    \A o \in Orchs :
        /\ \A k \in 1..Len(Appends(o)) :
               LET r == Answered(o)[k].response
               IN  r.status # "fail" =>
                       Appends(o)[k].line =
                           SummaryLine(o, k, IF r.result.isdict /\ r.result.message.some
                                                    /\ r.result.message.v # <<>>
                                             THEN r.result.message.v ELSE r.result.str)
        /\ memory[o].text = memory0[o].text \o Lines(o, Len(Appends(o)))

\* A run of three llm steps answered with an empty message, without message
\* and with one: the first line renders the dict, the third has the message.
C33_Witness ==
    /\ pc[1] = "returned"
    /\ Len(Appends(1)) = 3
    /\ Answered(1)[1].response.result = Result(TRUE, Some(<<>>), <<"{'message': ''}">>)
    /\ Appends(1)[1].line = <<"- ">> \o spec[1].steps[1].name \o <<": ", "{'message': ''}">>
    /\ Answered(1)[2].response.result.message = None
    /\ Appends(1)[2].line = <<"- ">> \o spec[1].steps[2].name \o <<": ", "{'echo': 'x'}">>
    /\ Answered(1)[3].response.result.message = Some(<<"done">>)
    /\ Appends(1)[3].line = <<"- ">> \o spec[1].steps[3].name \o <<": ", "done">>

\* ------------------------------------------------------------------ C34
\* The place in the list of steps of run o of the step with the id given.
PlaceOf(o, id) == CHOOSE i \in 1..Len(spec[o].steps) : spec[o].steps[i].id = id

\* C34: nothing is done about the status "retry".  No step has its executor
\* invoked more than once in a run, whatever it answers; and an answer
\* "retry" is followed by what follows an answer "ok": on_step_finish (with
\* an observer), the append of the summary line of the step, and then the
\* request of the next step of the list, or the return of all the responses
\* when the step was the last.
C34_RetryIsNotHandled ==
    \A o \in Orchs :
        /\ \A k \in 1..Len(spec[o].steps) : Count(o, "execute", spec[o].steps[k].id) <= 1
        /\ \A i \in 1..Len(events[o]) :
               (IsResponse(events[o][i]) /\ events[o][i].response.status = "retry") =>
                   LET id == events[o][i].step
                       a == IF HasObserver(o) THEN i + 2 ELSE i + 1
                       place == PlaceOf(o, id)
                   IN  /\ (HasObserver(o) /\ Len(events[o]) > i) =>
                             events[o][i + 1] = Event("finish", id)
                       /\ Len(events[o]) >= a =>
                             /\ events[o][a].ev = "append"
                             /\ events[o][a].step = id
                             /\ events[o][a].line =
                                   FormatSummary(spec[o].steps[place].name, events[o][i].response)
                       /\ Len(events[o]) > a =>
                             IF place < Len(spec[o].steps)
                             THEN events[o][a + 1] = Event("request", spec[o].steps[place + 1].id)
                             ELSE /\ events[o][a + 1].ev = "return"
                                  /\ events[o][a + 1].after = "loop"
                                  /\ Len(responses[o]) = Len(spec[o].steps)

\* A run of two steps returned; the first was answered "retry" and was
\* executed once, the second was executed after it.
C34_Witness ==
    /\ pc[1] = "returned"
    /\ Len(spec[1].steps) = 2
    /\ HasObserver(1)
    /\ Len(responses[1]) = 2
    /\ responses[1][1].status = "retry"
    /\ Count(1, "execute", spec[1].steps[1].id) = 1
    /\ Count(1, "finish", spec[1].steps[1].id) = 1
    /\ Count(1, "execute", spec[1].steps[2].id) = 1
    /\ Len(Appends(1)) = 2

\* ------------------------------------------------------------------ C35
\* The lines of a text, as str.splitlines gives them.
RECURSIVE LinesOf(_)
LinesOf(text) ==
    IF text = <<>> THEN <<>>
    ELSE LET breaks == {i \in 1..Len(text) : text[i] = NL}
         IN  IF breaks = {} THEN <<text>>
             ELSE LET first == CHOOSE i \in breaks : \A j \in breaks : i <= j
                  IN  <<SubSeq(text, 1, first - 1)>> \o LinesOf(SubSeq(text, first + 1, Len(text)))

\* Run o has the registry of ExecutorFactory.default(), no executors of its
\* own, and steps of the kind llm only.
DefaultLLMRun(o) ==
    /\ pc[o] \notin {"unused", "new"}
    /\ ~argFactory[o].some
    /\ executors[o] = NoExecutors
    /\ \A k \in 1..Len(spec[o].steps) : spec[o].steps[k].kind = "llm"

\* The memory file of run o has the lines it had and then one line per step,
\* in the order of the steps, that begins with "- {step name}:".
GainedLines(o) ==
    LET before == LinesOf(memory0[o].text)
        after == LinesOf(memory[o].text)
    IN  /\ Len(after) = Len(before) + Len(spec[o].steps)
        /\ SubSeq(after, 1, Len(before)) = before
        /\ \A k \in 1..Len(spec[o].steps) :
               IsPrefix(<<"- ">> \o spec[o].steps[k].name \o <<": ">>, after[Len(before) + k])

\* C35: with the default registry a workflow of llm steps never raises, and
\* when run() has returned there is one response per step, each with the
\* status "ok", and the memory file has, after the lines it had, one line
\* per step, in the order of the steps, that begins with "- {step name}:".
C35_LLMWorkflowFinishes ==
    \A o \in Orchs :
        DefaultLLMRun(o) =>
            /\ pc[o] # "raised"
            /\ pc[o] = "returned" =>
                  /\ Len(responses[o]) = Len(spec[o].steps)
                  /\ \A k \in 1..Len(responses[o]) : responses[o][k].status = "ok"
                  /\ GainedLines(o)

\* ------------------------------------------------------------------ C36
\* What comes just before the i-th event of run o, i > 1.
ComesAfter(o, i) ==
    LET e == events[o][i]
        prev == events[o][i - 1]
    IN  CASE e.ev = "request" -> prev.ev = "append" /\ PlaceOf(o, e.step) = PlaceOf(o, prev.step) + 1
          [] e.ev = "start" -> prev = Event("request", e.step)
          [] e.ev = "create" ->
                prev = Event(IF HasObserver(o) THEN "start" ELSE "request", e.step)
          [] e.ev = "execute" -> prev.ev = "create" /\ prev.step = e.step /\ prev.ok
          [] e.ev = "response" -> prev.ev = "execute" /\ prev.step = e.step
          [] e.ev \in {"finish", "error"} ->
                /\ prev.ev = "response" /\ prev.step = e.step
                /\ e.ev = Closing(prev.response)
          [] e.ev = "append" ->
                IF HasObserver(o)
                THEN prev.ev \in {"finish", "error"} /\ prev.step = e.step
                ELSE prev.ev = "response" /\ prev.step = e.step
          [] e.ev = "return" -> prev.ev = "append"

\* C36: in one step the request is built, the start is notified, the executor
\* is resolved and called, the finish or the error is notified and only then
\* the line of the step is appended to the memory file; the request of the
\* next step is built after that append, and never after a failure.  Without an observer the same order holds without the
\* notifications.
C36_NotifyBeforeAppend ==
    \A o \in Orchs :
        /\ \A i \in 2..Len(events[o]) : ComesAfter(o, i)
        /\ \A i \in 1..Len(events[o]) :
               (i = 1 /\ pc[o] # "unused") =>
                   \/ events[o][1].ev = "return" /\ spec[o].steps = <<>>
                   \/ events[o][1] = Event("request", spec[o].steps[1].id)
        /\ \A i \in 2..Len(events[o]) :
               events[o][i].ev = "request" =>
                   Answered(o)[Len(SelectSeq(SubSeq(events[o], 1, i), IsResponse))]
                       .response.status # "fail"

\* An observed run of two steps, the second failing: the seven events of the
\* first step, and those of the second with on_step_error before its append.
C36_Witness ==
    /\ pc[1] = "returned"
    /\ HasObserver(1)
    /\ Len(events[1]) = 15
    /\ [i \in 1..15 |-> events[1][i].ev] =
          <<"request", "start", "create", "execute", "response", "finish", "append",
            "request", "start", "create", "execute", "response", "error", "append", "return">>

\* ------------------------------------------------------------------ C38
\* Run o found no executor for the step at place k of its list.
NoExecutorAt(o, k) ==
    \E i \in 1..Len(events[o]) :
        /\ events[o][i].ev = "create"
        /\ ~events[o][i].ok
        /\ k <= Len(spec[o].steps)
        /\ events[o][i].step = spec[o].steps[k].id

\* C38: when no executor is registered for the kind of the k-th step, k > 1,
\* run() raises the error that names the kind and returns nothing: the k-1
\* responses it has are lost to the caller.  The memory file keeps what the
\* k-1 steps before have appended and gets nothing for step k, and an
\* observer has been told the start of step k and neither its finish nor an
\* error.
C38_PartialRunRaises ==
    \A o \in Orchs :
        \A k \in 2..Len(spec[o].steps) :
            NoExecutorAt(o, k) =>
                LET id == spec[o].steps[k].id
                IN  /\ pc[o] = "raised"
                    /\ raised[o] = Some(NoExecutorFor(spec[o].steps[k].kind))
                    /\ Count(o, "return", 0) = 0
                    /\ Len(responses[o]) = k - 1
                    /\ \A j \in 1..(k - 1) : responses[o][j].status # "fail"
                    /\ Len(Appends(o)) = k - 1
                    /\ \A j \in 1..(k - 1) : Appends(o)[j].step = spec[o].steps[j].id
                    /\ memory[o].text = memory0[o].text \o Lines(o, k - 1)
                    /\ Count(o, "start", id) = (IF HasObserver(o) THEN 1 ELSE 0)
                    /\ Count(o, "finish", id) = 0
                    /\ Count(o, "error", id) = 0
                    /\ Count(o, "execute", id) = 0
                    /\ events[o][Len(events[o])].ev = "create"

\* An observed run of three steps raised at the second, a shell step: one
\* response, one entry in the memory file, and the start of the second step
\* notified last.
C38_Witness ==
    /\ HasObserver(1)
    /\ Len(spec[1].steps) = 3
    /\ NoExecutorAt(1, 2)
    /\ pc[1] = "raised"
    /\ raised[1] = Some(NoExecutorFor("shell"))
    /\ Len(responses[1]) = 1
    /\ Len(Appends(1)) = 1
    /\ memory[1].text # memory0[1].text
    /\ Notifications(1)[Len(Notifications(1))] = Event("start", spec[1].steps[2].id)

\* ------------------------------------------------------------------ C37
\* The last event of caller o that set the registration of key or emptied
\* the cache: a successful registration of key, or clear_singletons; 0 when
\* there was none.
LastReset(o, key) ==
    LET resets == {i \in 1..Len(events[o]) :
                      \/ events[o][i].ev = "clear"
                      \/ /\ IsRegistration(events[o][i])
                         /\ events[o][i].key = key
                         /\ ~events[o][i].raised.some}
    IN  IF resets = {} THEN 0 ELSE CHOOSE i \in resets : \A j \in resets : j <= i

\* Caller o resolved key after its event i, and the provider's callable ran
\* as a singleton's.
ResolvedSince(o, i, key) ==
    \E j \in (i + 1)..Len(events[o]) :
        /\ IsResolution(events[o][j])
        /\ events[o][j].key = key
        /\ events[o][j].strategy = "singleton"
        /\ events[o][j].built
        /\ events[o][j].value = Registry(o).singletons[key]

\* C37: used by one caller at a time, the registry never holds a cached value
\* for a key whose current provider is a plain factory; and a cached value is
\* there only for a key registered as an instance, or as a singleton that was
\* resolved since the last registration of the key (overriding or not) and
\* the last clear_singletons.
C37_CacheOnlyForSingletons ==
    \A key \in Keys :
        LET c == Registry(1)
            last == LastReset(1, key)
        IN  /\ (c.providers[key].some /\ ~c.providers[key].v.singleton) => ~c.singletons[key].some
            /\ c.singletons[key].some =>
                  IF last = 0
                  THEN \/ c.singletons[key] = containers0[1].singletons[key]
                       \/ ResolvedSince(1, 0, key)
                  ELSE \/ /\ IsRegistration(events[1][last])
                          /\ events[1][last].strategy = "instance"
                          /\ ~c.providers[key].some
                          /\ c.singletons[key] = Some(events[1][last].given)
                       \/ /\ c.providers[key].some /\ c.providers[key].v.singleton
                          /\ ResolvedSince(1, last, key)

\* A singleton was registered again, overriding, and resolved; then a key
\* that held an instance was registered again as a plain factory, overriding:
\* the singleton's new object is cached and nothing is cached for the factory.
C37_Witness ==
    /\ Len(events[1]) = 3
    /\ containers0[1].singletons[Key("llm")].some
    /\ containers0[1].singletons[Key("shell")].some
    /\ IsRegistration(events[1][1]) /\ events[1][1].strategy = "singleton"
    /\ events[1][1].key = Key("shell") /\ events[1][1].override
    /\ ~events[1][1].raised.some
    /\ IsResolution(events[1][2]) /\ events[1][2].key = Key("shell") /\ events[1][2].built
    /\ IsRegistration(events[1][3]) /\ events[1][3].strategy = "factory"
    /\ events[1][3].key = Key("llm") /\ events[1][3].override
    /\ ~events[1][3].raised.some
    /\ Registry(1).singletons[Key("shell")] = events[1][2].value
    /\ Registry(1).singletons[Key("shell")] # containers0[1].singletons[Key("shell")]
    /\ Registry(1).providers[Key("llm")].some
    /\ ~Registry(1).singletons[Key("llm")].some

\* ------------------------------------------------------------------ C39
\* C39: whatever was called on the builder, its tasks have pairwise distinct
\* ids and so have its steps, so the uniqueness checks of WorkflowSpec pass on
\* them; and a compile() that failed, failed for the missing goal or the
\* missing memory path.
C39_CompileFailsOnlyForGoalOrPath ==
    /\ Distinct(workflow_builder.tasks)
    /\ Distinct(workflow_builder.steps)
    /\ \A goal \in Goals, path \in Paths :
          ~WorkflowSpec(goal, path, workflow_builder.tasks, workflow_builder.steps).raised.some
    /\ \A i \in 1..Len(events[1]) :
          (IsCall(i, "compile") /\ events[1][i].raised.some) =>
              events[1][i].raised.v \in {GoalMissing, MemoryMissing}
    /\ \A i \in 1..Len(workflows) :
          Distinct(workflows[i].tasks) /\ Distinct(workflows[i].steps)

\* A second task and a second step were added to a builder holding one of
\* each, and compile() returned the workflow of two tasks and two steps.
C39_Witness ==
    /\ Len(events[1]) = 3
    /\ events[1][1].ev = "register_task" /\ ~events[1][1].raised.some
    /\ events[1][2].ev = "add_step" /\ ~events[1][2].raised.some
    /\ events[1][3].ev = "compile" /\ ~events[1][3].raised.some
    /\ Len(events[1][3].value.v.tasks) = 2
    /\ Len(events[1][3].value.v.steps) = 2
    /\ workflows = <<events[1][3].value.v>>

\* ------------------------------------------------------------------ a supplied registry
\* One registry, any of those a caller may supply, is given to two
\* orchestrators: to the first with any of the executor mappings, to the
\* second, constructed after the first, with none.  Executors are then
\* created through either.
InitShared ==
    /\ spec = [o \in Orchs |-> [steps |-> <<>>]]
    /\ observer = [o \in Orchs |-> None]
    /\ \E m \in ExecutorMaps : executors = [o \in Orchs |-> IF o = 1 THEN m ELSE NoExecutors]
    /\ argFactory = [o \in Orchs |-> Some(1)]
    /\ \E c \in SuppliedFactories : containers = <<c>>
    /\ memory0 = [o \in Orchs |-> [exists |-> FALSE, text |-> <<>>]]
    /\ Locals(Orchs)

NextShared ==
    \/ Construct(1)
    \/ pc[1] = "ready" /\ Construct(2)
    \/ \E o \in Orchs : FactoryCreate(o)

SpecShared == InitShared /\ [][NextShared]_vars

\* The kind of a registry key.
KindOf(key) == CHOOSE kind \in StepKind : Key(kind) = key

\* __init__ adds the stand-in to the supplied registry: the mapping has no
\* executor for llm and the registry came without one.
AddsStandIn == ~executors[1]["llm"].some /\ ~IsRegistered(containers0[1], Key("llm"))

\* ------------------------------------------------------------------ C40
\* C40: the orchestrator constructed with a supplied registry has changed that
\* very registry: it holds the executors of the mapping as instances, the
\* stand-in as a singleton for llm when llm was unregistered, and otherwise
\* the providers it came with.  An orchestrator constructed later with the
\* same registry and no mapping holds the same registry, and what it creates
\* for a kind of the first one's mapping is the executor of that mapping; the
\* stand-in the two create is one object.
C40_SuppliedRegistryChangedInPlace ==
    /\ Len(containers) = 1
    /\ pc[2] = "ready" => pc[1] = "ready"
    /\ \A o \in Orchs : pc[o] = "ready" => executor_factory[o] = 1
    /\ pc[1] = "ready" =>
          \A kind \in StepKind :
              LET key == Key(kind)
                  c == containers[1]
              IN  IF executors[1][kind].some
                  THEN Strategy(c, key) = "instance" /\ c.singletons[key] = executors[1][kind]
                  ELSE IF kind = "llm" /\ AddsStandIn
                  THEN c.providers[key] = Some(Provider("LLMExecutor", TRUE))
                  ELSE c.providers[key] = containers0[1].providers[key]
    /\ \A i \in 1..Len(events[2]) :
          LET e == events[2][i]
          IN  /\ executors[1][KindOf(e.key)].some =>
                    ~e.raised.some /\ e.value = executors[1][KindOf(e.key)]
              /\ (e.key = Key("llm") /\ AddsStandIn) =>
                    /\ ~e.raised.some
                    /\ e.value.v.cls = "LLMExecutor"
                    /\ \A j \in 1..Len(events[1]) :
                          events[1][j].key = e.key => events[1][j].value = e.value

\* A registry that came with a factory for shell was given to an orchestrator
\* with a mapping for llm and shell, and then to a second one without a
\* mapping, which created the shell executor of the first one's mapping.
C40_Witness ==
    /\ containers0[1] = Factories
    /\ executors[1]["shell"] = Some(Recording(2))
    /\ pc[1] = "ready" /\ pc[2] = "ready"
    /\ executor_factory[2] = 1
    /\ Len(events[2]) = 1
    /\ events[2][1].ev = "create" /\ events[2][1].key = Key("shell")
    /\ events[2][1].value = Some(Recording(2))

\* The stand-in was added to an empty registry by the first orchestrator, and
\* both orchestrators created it.
C40_StandInShared ==
    /\ containers0[1] = EmptyContainer
    /\ AddsStandIn
    /\ Len(events[1]) = 1 /\ Len(events[2]) = 1
    /\ events[1][1].key = Key("llm") /\ events[2][1].key = Key("llm")
    /\ events[2][1].value.some

\* ------------------------------------------------------------------ serializing a builder
\* The tasks of the workflows serialized: none, one with a file, one with a
\* file and an empty text, and two, the first with a file and a text that
\* holds quotes and a line break.
FiledTask == [id |-> "t1", file |-> Some(<<"brief.md">>), text |-> None]

YamlTasks ==
    {<<>>,
     <<FiledTask>>,
     <<[id |-> "t1", file |-> Some(<<"brief.md">>), text |-> Some(<<>>)]>>,
     <<[id |-> "t1", file |-> Some(<<"brief.md">>),
        text |-> Some(<<"Say ", "\"", "done", "\"", ".", NL, "Then stop.">>)],
       [id |-> "t2", file |-> None, text |-> Some(<<"Summarise the notes.">>)]>>}

\* The config of a step: empty, one entry, and three entries that sorting
\* reorders, one of them None and one a bool.
YamlConfigs ==
    {<<>>,
     << <<"retries", Number(2)>> >>,
     << <<"retries", Number(2)>>, <<"model", Null>>, <<"cache", Bool(FALSE)>> >>}

\* The steps serialized: every field that as_dict may leave out, given or not.
YamlSteps ==
    {[id |-> 1, name |-> StepName, kind |-> "llm", doc |-> doc, uses |-> uses,
      input_template |-> input_template, config |-> config, branches |-> branches,
      next_step |-> next_step] :
        doc \in {<<>>, <<"Write the draft.">>},
        uses \in {<<>>, <<"t1">>},
        input_template \in {None, Some(<<>>), Some(<<"Use {memory}.">>)},
        config \in YamlConfigs,
        branches \in {<<>>, <<Branch(<<"ok">>, 1)>>},
        next_step \in {None, Some(1)}}

\* The builders serialized: with a goal and a memory path, any of the tasks,
\* and no step, or one step that uses registered tasks only.
YamlBuilders ==
    {b \in {[goal |-> Some(<<"Ship the release.">>),
             memory_file |-> Some(<<"notes/memory.md">>),
             tasks |-> tasks, steps |-> steps] :
                tasks \in YamlTasks, steps \in {<<>>} \cup {<<step>> : step \in YamlSteps}} :
        \A k \in 1..Len(b.steps) : \A i \in 1..Len(b.steps[k].uses) :
            b.steps[k].uses[i] \in TaskIdsOf(b.tasks)}

\* emit_yaml on a builder that keeps its tasks in no order.
BuilderEmitYaml_Unordered ==
    /\ CallsBuilder
    /\ \E sort_keys \in BOOLEAN, from \in Permutations(1..Len(workflow_builder.tasks)) :
          LET r == EmitYaml_Unordered(workflow_builder, sort_keys, from)
          IN  Log(1, [ev |-> "emit_yaml", sort_keys |-> sort_keys, builder |-> workflow_builder,
                      raised |-> r.raised, written |-> r.written])
    /\ UNCHANGED <<inputs, frame, assembly, executor_factory, containers, nextOid, memory, pc, idx,
                   request, executor, responses, raised, script>>

\* builder.emit_yaml(path, sort_keys=...); builder is the state of the builder
\* at the call, written the text written to path.
BuilderEmitYaml ==
    /\ CallsBuilder
    /\ \E sort_keys \in BOOLEAN :
          LET r == EmitYaml(workflow_builder, sort_keys)
          IN  Log(1, [ev |-> "emit_yaml", sort_keys |-> sort_keys, builder |-> workflow_builder,
                      raised |-> r.raised, written |-> r.written])
    /\ UNCHANGED <<inputs, frame, assembly, executor_factory, containers, nextOid, memory, pc, idx,
                   request, executor, responses, raised, script>>

\* task.as_dict() on a task of the builder
CallTaskAsDict ==
    /\ CallsBuilder
    /\ \E i \in 1..Len(workflow_builder.tasks) :
          Log(1, [ev |-> "task.as_dict", of |-> workflow_builder.tasks[i],
                  value |-> TaskAsDict(workflow_builder.tasks[i])])
    /\ UNCHANGED <<inputs, frame, assembly, executor_factory, containers, nextOid, memory, pc, idx,
                   request, executor, responses, raised, script>>

\* step.as_dict() on a step of the builder
CallStepAsDict ==
    /\ CallsBuilder
    /\ \E i \in 1..Len(workflow_builder.steps) :
          Log(1, [ev |-> "step.as_dict", of |-> workflow_builder.steps[i],
                  value |-> StepAsDict(workflow_builder.steps[i])])
    /\ UNCHANGED <<inputs, frame, assembly, executor_factory, containers, nextOid, memory, pc, idx,
                   request, executor, responses, raised, script>>

InitYaml ==
    /\ NoOrchestrators
    /\ workflow_builder \in YamlBuilders
    /\ workflows = <<>>
    /\ containers = <<>>
    /\ containers0 = containers
    /\ executor_factory = [o \in Orchs |-> 0]
    /\ pc = [o \in Orchs |-> IF o = 1 THEN "builder" ELSE "unused"]

\* The builder is serialized, and given a goal, in any order.
NextYaml ==
    \/ BuilderEmitYaml
    \/ BuilderWithGoal

SpecYaml == InitYaml /\ [][NextYaml]_vars

\* as_dict is called on the tasks and the steps of the builder.
NextAsDict ==
    \/ CallTaskAsDict
    \/ CallStepAsDict

SpecAsDict == InitYaml /\ [][NextAsDict]_vars

\* ------------------------------------------------------------------ C31
IsEmit(e) == e.ev = "emit_yaml"

KeysOf(payload) == [i \in 1..Len(payload.v) |-> payload.v[i][1]]

\* No key of the payload has the value None.
NoNull(payload) == \A i \in 1..Len(payload.v) : payload.v[i][2].t # "null"

\* C32: what as_dict returns for a task has no key with the value None, has
\* 'id', and has 'file' and 'text' exactly when the field is set; what it
\* returns for a step has no key with the value None, always has 'id',
\* 'name', 'kind' and 'doc', has 'uses', 'config' and 'branches' exactly when
\* the field is not empty, 'input' and 'next' exactly when the field is set,
\* and no other key.
C32_AbsentFieldsOmitted ==
    \A n \in 1..Len(events[1]) :
        LET e == events[1][n]
            payload == e.value
        IN  /\ e.ev = "task.as_dict" =>
                  /\ NoNull(payload)
                  /\ KeysOf(payload) = <<"id">>
                                          \o (IF e.of.file.some THEN <<"file">> ELSE <<>>)
                                          \o (IF e.of.text.some THEN <<"text">> ELSE <<>>)
                  /\ Item(payload, "id") = Str(<<e.of.id>>)
                  /\ e.of.file.some => Item(payload, "file") = Str(e.of.file.v)
                  /\ e.of.text.some => Item(payload, "text") = Str(e.of.text.v)
            /\ e.ev = "step.as_dict" =>
                  /\ NoNull(payload)
                  /\ \A key \in {"id", "name", "kind", "doc"} : HasKey(payload, key)
                  /\ Item(payload, "doc") = Str(e.of.doc)
                  /\ HasKey(payload, "uses") <=> Len(e.of.uses) > 0
                  /\ HasKey(payload, "config") <=> Len(e.of.config) > 0
                  /\ HasKey(payload, "branches") <=> Len(e.of.branches) > 0
                  /\ HasKey(payload, "input") <=> e.of.input_template.some
                  /\ HasKey(payload, "next") <=> e.of.next_step.some
                  /\ \A i \in 1..Len(payload.v) :
                        /\ payload.v[i][1] \in {"id", "name", "kind", "doc", "uses", "input",
                                                "config", "branches", "next"}
                        /\ \A j \in 1..Len(payload.v) : payload.v[i][1] = payload.v[j][1] => i = j

\* as_dict was called on a task that has a file and no text, and on a step
\* with an empty doc and an empty input template and nothing else: the task's
\* payload has id and file, the step's has id, name, kind, doc and input.
C32_Witness ==
    /\ Len(events[1]) = 2
    /\ events[1][1].ev = "task.as_dict" /\ events[1][1].of = FiledTask
    /\ KeysOf(events[1][1].value) = <<"id", "file">>
    /\ events[1][2].ev = "step.as_dict"
    /\ events[1][2].of.doc = <<>> /\ events[1][2].of.input_template = Some(<<>>)
    /\ KeysOf(events[1][2].value) = <<"id", "name", "kind", "doc", "input">>

====
